---- MODULE Spec2Model ----
(***************************************************************************)
(* Peasauce disassembly core: the block store, the line-number index, the  *)
(* symbol and reference registries, the code-discovery engine and the      *)
(* retype engine of python/disassembly.py, over small loaded images.       *)
(*                                                                         *)
(* Python lists are modelled as sequences and keep their 0-based indices   *)
(* (At, SetAt, InsertAt); dicts are functions over their key set; None is  *)
(* -1 where the field otherwise holds a natural number.                    *)
(***************************************************************************)
EXTENDS Integers, Sequences, FiniteSets, TLC

\* ------------------------------------------------------------------ bounds

\* How many interactive set_data_type_at_address calls a behaviour makes.
MaxOps == 1
\* How many split_block calls a behaviour makes on their own.
MaxSplits == 1

\* ------------------------------------------------- disassembly_data values

None == -1

DATA_TYPE_CODE == 1
DATA_TYPE_ASCII == 2
DATA_TYPE_BYTE == 3
DATA_TYPE_WORD == 4
DATA_TYPE_LONGWORD == 5
DATA_TYPE_BIT0 == 0
DATA_TYPE_BITCOUNT == 3
DATA_TYPE_BITMASK == 7
BLOCK_FLAG_ALLOC == 8
BLOCK_FLAG_PROCESSED == 16
BLOCK_SPLIT_BITMASK == 31
NUMERIC_DATA_TYPES == {DATA_TYPE_LONGWORD, DATA_TYPE_WORD, DATA_TYPE_BYTE}

SLD_INSTRUCTION == 1
SLD_COMMENT_TRAILING == 2
SLD_COMMENT_FULL_LINE == 3
SLD_EQU_LOCATION_RELATIVE == 4

ERR_SPLIT_EXISTING == -1
ERR_SPLIT_BOUNDS == -2
ERR_SPLIT_MIDINSTRUCTION == -3

SEGMENT_HEADER_LINE_COUNT == 2

MAF_CODE == 1
MAF_ABSOLUTE == 2
MAF_UNCERTAIN == 4

LI_INSTRUCTION == 3
LI_OPERANDS == 4

line_width_max == 40

\* ---------------------------------------------------------- python helpers

Min(a, b) == IF a < b THEN a ELSE b
Max(a, b) == IF a > b THEN a ELSE b
SetMax(S) == CHOOSE x \in S : \A y \in S : y <= x
SetMin(S) == CHOOSE x \in S : \A y \in S : x <= y

\* s[i] of a Python list, a negative i counting from the end.
PyIndex(s, i) == IF i < 0 THEN Len(s) + i + 1 ELSE i + 1
At(s, i) == s[PyIndex(s, i)]
SetAt(s, i, v) == [s EXCEPT ![PyIndex(s, i)] = v]
\* list.insert(i, v) for 0 <= i.
InsertAt(s, i, v) ==
    IF i >= Len(s) THEN Append(s, v)
    ELSE SubSeq(s, 1, i) \o <<v>> \o SubSeq(s, i + 1, Len(s))
\* s[i:] and s[:i]: a negative i counts from the end, and an i beyond either
\* end is clamped to it
SlicePosition(s, i) == IF i < 0 THEN Max(Len(s) + i, 0) ELSE Min(i, Len(s))
SliceFrom(s, i) == SubSeq(s, SlicePosition(s, i) + 1, Len(s))
SliceTo(s, i) == SubSeq(s, 1, SlicePosition(s, i))

\* bit tests on the flags word
HasBit(flags, bit) == ((flags \div bit) % 2) = 1
OrBit(flags, bit) == IF HasBit(flags, bit) THEN flags ELSE flags + bit
ClearBit(flags, bit) == IF HasBit(flags, bit) THEN flags - bit ELSE flags
\* flags & mask for a mask 2^k - 1
AndLowMask(flags, mask) == flags % (mask + 1)

\* bisect.bisect_right(a, x): the loop of the standard library, which is
\* also what runs when the list is not sorted.
RECURSIVE bisect_loop(_, _, _, _)
bisect_loop(a, x, lo, hi) ==
    IF lo < hi
    THEN LET mid == (lo + hi) \div 2
         IN IF x < a[mid + 1] THEN bisect_loop(a, x, lo, mid)
            ELSE bisect_loop(a, x, mid + 1, hi)
    ELSE lo
bisect_right(a, x) == bisect_loop(a, x, 0, Len(a))

\* "%0<digits>X" % n
HexChars == <<"0","1","2","3","4","5","6","7","8","9","A","B","C","D","E","F">>
RECURSIVE Pow(_, _)
Pow(b, e) == IF e = 0 THEN 1 ELSE b * Pow(b, e - 1)
RECURSIVE HexFixed(_, _)
HexFixed(n, digits) ==
    IF digits = 0 THEN ""
    ELSE HexFixed(n \div 16, digits - 1) \o HexChars[(n % 16) + 1]
RECURSIVE HexMin(_)
HexMin(n) == IF n < 16 THEN HexChars[n + 1] ELSE HexMin(n \div 16) \o HexChars[(n % 16) + 1]
RECURSIVE DecStr(_)
DecStr(n) == IF n < 10 THEN HexChars[n + 1] ELSE DecStr(n \div 10) \o HexChars[(n % 10) + 1]

\* a local variable: the value of a function defined on one value, which
\* is how `name = value` followed by the rest of a body is written (g holds
\* the function, so that it is built once)
Bind(f) == CHOOSE y \in {g[CHOOSE v \in DOMAIN g : TRUE] : g \in {f}} : TRUE

\* dicts
EmptyDict == [k \in {} |-> 0]
Has(d, k) == k \in DOMAIN d
Put(d, k, v) == [x \in (DOMAIN d) \cup {k} |-> IF x = k THEN v ELSE d[x]]

\* a set of integers as the ascending list
RECURSIVE SortedSeq(_)
SortedSeq(S) == IF S = {} THEN <<>> ELSE <<SetMin(S)>> \o SortedSeq(S \ {SetMin(S)})


\* ------------------------------------------------------------------ images
\* What the loader and the decoder deliver for one input file:
\*   segments   per segment: address, data_length (file-backed), length, bss
\*   data       address -> byte that the file holds there
\*   dec        address -> what disassemble_one_line / disassemble_as_data /
\*              is_final_instruction / get_match_addresses answer for the
\*              bytes at that address (n = 0: no match, skip = the
\*              disassemble_as_data count)
\*   symbols    address -> name of a loader symbol
\*   relocated / relocatable   the relocation sets of the loader
\*   entry      the entrypoint address
\*   headers    has_segment_headers(system)
\*   binary     the input is a bare binary file (PDF_BINARY_FILE)

NoMatch(K) == [n |-> 0, skip |-> K, final |-> FALSE, key |-> "", targets |-> {}]
Ins(n, key, final, targets) ==
    [n |-> n, skip |-> 0, final |-> final, key |-> key, targets |-> targets]
Seg(address, data_length, length, bss) ==
    [address |-> address, data_length |-> data_length, length |-> length, bss |-> bss]

\* one segment, all code; the first branch targets the address past the end
ImageA ==
    [segments |-> << Seg(0, 6, 6, FALSE) >>,
     data |-> (0 :> 96 @@ 1 :> 4 @@ 2 :> 78 @@ 3 :> 64 @@ 4 :> 78 @@ 5 :> 117),
     dec |-> (0 :> Ins(2, "Bcc", FALSE, {<<6, MAF_CODE>>})
           @@ 2 :> Ins(2, "TRAP", FALSE, {})
           @@ 4 :> Ins(2, "RTS", TRUE, {})),
     symbols |-> EmptyDict, relocated |-> {}, relocatable |-> {},
     entry |-> 0, headers |-> TRUE, binary |-> FALSE]

\* code that ends on a final instruction with data after it; the data holds
\* a longword whose value is an address of the image
ImageB ==
    [segments |-> << Seg(0, 8, 8, FALSE) >>,
     data |-> (0 :> 50 @@ 1 :> 1 @@ 2 :> 78 @@ 3 :> 117
            @@ 4 :> 0 @@ 5 :> 0 @@ 6 :> 0 @@ 7 :> 2),
     dec |-> (0 :> Ins(2, "MOVE", FALSE, {<<6, 0>>})
           @@ 2 :> Ins(2, "RTS", TRUE, {})),
     symbols |-> EmptyDict, relocated |-> {}, relocatable |-> {},
     entry |-> 0, headers |-> FALSE, binary |-> TRUE]

\* undecodable bytes at the entry and in the middle, both skippable as data
ImageC ==
    [segments |-> << Seg(0, 8, 8, FALSE) >>,
     data |-> (0 :> 0 @@ 1 :> 72 @@ 2 :> 50 @@ 3 :> 6
            @@ 4 :> 105 @@ 5 :> 0 @@ 6 :> 78 @@ 7 :> 117),
     dec |-> (0 :> NoMatch(2)
           @@ 2 :> Ins(2, "MOVE", FALSE, {<<6, MAF_ABSOLUTE>>})
           @@ 4 :> NoMatch(2)
           @@ 6 :> Ins(2, "RTS", TRUE, {})),
     symbols |-> EmptyDict, relocated |-> {6}, relocatable |-> {2, 6},
     entry |-> 0, headers |-> TRUE, binary |-> FALSE]

\* two contiguous segments, the second with a BSS tail; a loader symbol
\* inside the first instruction; branches to the next segment and past it
ImageD ==
    [segments |-> << Seg(0, 4, 4, FALSE), Seg(4, 2, 4, FALSE) >>,
     data |-> (0 :> 78 @@ 1 :> 1 @@ 2 :> 0 @@ 3 :> 4 @@ 4 :> 78 @@ 5 :> 117),
     dec |-> (0 :> Ins(4, "JMP", TRUE, {<<4, MAF_CODE>>, <<8, MAF_CODE>>})
           @@ 4 :> Ins(2, "RTS", TRUE, {})),
     symbols |-> (2 :> "foo"), relocated |-> {}, relocatable |-> {},
     entry |-> 0, headers |-> TRUE, binary |-> FALSE]

\* two segments with a gap, the first not at address 0; branches into the
\* second segment, to an address below the first and to the branch itself
ImageE ==
    [segments |-> << Seg(2, 2, 2, FALSE), Seg(6, 2, 2, FALSE) >>,
     data |-> (2 :> 96 @@ 3 :> 2 @@ 6 :> 78 @@ 7 :> 117),
     dec |-> (2 :> Ins(2, "BRA", TRUE, {<<6, MAF_CODE>>, <<0, MAF_CODE>>, <<2, MAF_CODE>>})
           @@ 6 :> Ins(2, "RTS", TRUE, {})),
     symbols |-> EmptyDict, relocated |-> {}, relocatable |-> {},
     entry |-> 2, headers |-> TRUE, binary |-> FALSE]

\* a loop back into decoded code, followed by a segment that is all BSS
ImageF ==
    [segments |-> << Seg(0, 6, 6, FALSE), Seg(6, 0, 2, TRUE) >>,
     data |-> (0 :> 50 @@ 1 :> 1 @@ 2 :> 50 @@ 3 :> 2 @@ 4 :> 96 @@ 5 :> 2),
     dec |-> (0 :> Ins(2, "MOVE", FALSE, {})
           @@ 2 :> Ins(2, "MOVE", FALSE, {})
           @@ 4 :> Ins(2, "BRA", TRUE, {<<2, MAF_CODE>>})),
     symbols |-> EmptyDict, relocated |-> {}, relocatable |-> {},
     entry |-> 0, headers |-> TRUE, binary |-> FALSE]

\* code the entry does not reach: a branch that is the first and final
\* instruction of the bytes after the entry's RTS, then bytes that do not
\* decode, then the branch's target
ImageG ==
    [segments |-> << Seg(0, 8, 8, FALSE) >>,
     data |-> (0 :> 78 @@ 1 :> 117 @@ 2 :> 96 @@ 3 :> 2
            @@ 4 :> 0 @@ 5 :> 0 @@ 6 :> 78 @@ 7 :> 117),
     dec |-> (0 :> Ins(2, "RTS", TRUE, {})
           @@ 2 :> Ins(2, "BRA", TRUE, {<<6, MAF_CODE>>})
           @@ 6 :> Ins(2, "RTS", TRUE, {})),
     symbols |-> EmptyDict, relocated |-> {}, relocatable |-> {},
     entry |-> 0, headers |-> TRUE, binary |-> FALSE]

\* a conditional branch over bytes that do not decode and cannot be skipped
\* as data, to an instruction behind them
ImageH ==
    [segments |-> << Seg(0, 8, 8, FALSE) >>,
     data |-> (0 :> 102 @@ 1 :> 4 @@ 2 :> 0 @@ 3 :> 0
            @@ 4 :> 0 @@ 5 :> 0 @@ 6 :> 78 @@ 7 :> 117),
     dec |-> (0 :> Ins(2, "BNE", FALSE, {<<6, MAF_CODE>>})
           @@ 6 :> Ins(2, "RTS", TRUE, {})),
     symbols |-> EmptyDict, relocated |-> {}, relocatable |-> {},
     entry |-> 0, headers |-> TRUE, binary |-> FALSE]

\* code the entry does not reach, in two stretches whose lines are more than
\* the lines of the same bytes as data: a conditional branch and a return,
\* bytes that do not decode, then the branch's target, a trap that runs into
\* the end of the segment
ImageI ==
    [segments |-> << Seg(0, 10, 10, FALSE) >>,
     data |-> (0 :> 78 @@ 1 :> 117 @@ 2 :> 102 @@ 3 :> 4 @@ 4 :> 78 @@ 5 :> 117
            @@ 6 :> 0 @@ 7 :> 0 @@ 8 :> 78 @@ 9 :> 64),
     dec |-> (0 :> Ins(2, "RTS", TRUE, {})
           @@ 2 :> Ins(2, "Bcc", FALSE, {<<8, MAF_CODE>>})
           @@ 4 :> Ins(2, "RTS", TRUE, {})
           @@ 8 :> Ins(2, "TRAP", FALSE, {})),
     symbols |-> EmptyDict, relocated |-> {}, relocatable |-> {},
     entry |-> 0, headers |-> TRUE, binary |-> FALSE]

\* one segment whose last four bytes are not backed by the file; two
\* branches to the same address, which has a loader symbol
ImageJ ==
    [segments |-> << Seg(0, 4, 8, FALSE) >>,
     data |-> (0 :> 96 @@ 1 :> 0 @@ 2 :> 96 @@ 3 :> 254),
     dec |-> (0 :> Ins(2, "BRA", TRUE, {<<2, MAF_CODE>>})
           @@ 2 :> Ins(2, "BRA", TRUE, {<<2, MAF_CODE>>})),
     symbols |-> (2 :> "foo"), relocated |-> {}, relocatable |-> {},
     entry |-> 0, headers |-> TRUE, binary |-> FALSE]

\* a bare binary of a code segment and a data segment: the first
\* instruction has an absolute operand that is the address of the data, and
\* the data holds two overlapping longwords whose values are addresses of
\* the image
ImageK ==
    [segments |-> << Seg(0, 4, 4, FALSE), Seg(4, 6, 6, FALSE) >>,
     data |-> (0 :> 50 @@ 1 :> 4 @@ 2 :> 78 @@ 3 :> 117 @@ 4 :> 0 @@ 5 :> 0
            @@ 6 :> 0 @@ 7 :> 0 @@ 8 :> 0 @@ 9 :> 2),
     dec |-> (0 :> Ins(2, "MOVE", FALSE, {<<4, MAF_ABSOLUTE>>})
           @@ 2 :> Ins(2, "RTS", TRUE, {})),
     symbols |-> EmptyDict, relocated |-> {}, relocatable |-> {},
     entry |-> 0, headers |-> FALSE, binary |-> TRUE]

\* an executable of a code segment and a data segment of two pointers: the
\* longword at 4 is relocated to 8 and the one at 8 to 4; the first
\* instruction refers to 4 with an absolute short operand, so none of its
\* own bytes is relocated
ImageL ==
    [segments |-> << Seg(0, 4, 4, FALSE), Seg(4, 8, 8, FALSE) >>,
     data |-> (0 :> 50 @@ 1 :> 4 @@ 2 :> 78 @@ 3 :> 117 @@ 4 :> 0 @@ 5 :> 0
            @@ 6 :> 0 @@ 7 :> 8 @@ 8 :> 0 @@ 9 :> 0 @@ 10 :> 0 @@ 11 :> 4),
     dec |-> (0 :> Ins(2, "MOVE", FALSE, {<<4, MAF_ABSOLUTE>>})
           @@ 2 :> Ins(2, "RTS", TRUE, {})),
     symbols |-> EmptyDict, relocated |-> {4, 8}, relocatable |-> {4, 8},
     entry |-> 0, headers |-> FALSE, binary |-> FALSE]

\* twelve bytes that are neither instructions nor displayable characters
ImageM ==
    [segments |-> << Seg(0, 12, 12, FALSE) >>,
     data |-> [a \in 0..11 |-> 16],
     dec |-> EmptyDict,
     symbols |-> EmptyDict, relocated |-> {}, relocatable |-> {},
     entry |-> 0, headers |-> FALSE, binary |-> TRUE]

\* the entry is behind two bytes that do not decode; the code branches
\* back to them, and skipping them as data takes four bytes, which ends at
\* the second instruction
ImageN ==
    [segments |-> << Seg(0, 6, 6, FALSE) >>,
     data |-> (0 :> 0 @@ 1 :> 72 @@ 2 :> 50 @@ 3 :> 1 @@ 4 :> 96 @@ 5 :> 250),
     dec |-> (0 :> NoMatch(4)
           @@ 2 :> Ins(2, "MOVE", FALSE, {})
           @@ 4 :> Ins(2, "BRA", TRUE, {<<0, MAF_CODE>>})),
     symbols |-> EmptyDict, relocated |-> {}, relocatable |-> {},
     entry |-> 2, headers |-> FALSE, binary |-> TRUE]

Images == << ImageA, ImageB, ImageC, ImageD, ImageE, ImageF, ImageG, ImageH, ImageI, ImageJ,
             ImageK, ImageL, ImageM, ImageN >>

\* ---------------------------------------------------------------- state

VARIABLES
    image,                    \* the loaded input file, one of Images
    blocks,                   \* program_data.blocks
    block_addresses,          \* program_data.block_addresses
    block_line0s,             \* program_data.block_line0s
    block_line0s_dirtyidx,    \* program_data.block_line0s_dirtyidx
    symbols_by_address,       \* program_data.symbols_by_address
    branch_addresses,         \* program_data.branch_addresses
    reference_addresses,      \* program_data.reference_addresses
    post_segment_addresses,   \* program_data.post_segment_addresses
    address_ranges,           \* program_data.address_ranges
    funcs,                    \* whether the application registered its callbacks
    events,                   \* the observer calls of the current API call
    pc,                       \* where the mutator is
    disassembly_offsets,      \* worklist of the running _process_address_as_code
    pending_symbol_addresses, \* its pending_symbol_addresses
    to_label,                 \* what its labelling loop has yet to visit
    ctx,                      \* the caller of the running discovery
    nops,                     \* interactive calls made so far, by kind
    snap                      \* state kept for comparing a repeated call

vars == << image, blocks, block_addresses, block_line0s, block_line0s_dirtyidx,
           symbols_by_address, branch_addresses, reference_addresses,
           post_segment_addresses, address_ranges, funcs, events, pc,
           disassembly_offsets, pending_symbol_addresses, to_label, ctx, nops, snap >>

\* program_data as one value, for the functions that take and change it
PD ==
    [img |-> image,
     blocks |-> blocks,
     block_addresses |-> block_addresses,
     block_line0s |-> block_line0s,
     block_line0s_dirtyidx |-> block_line0s_dirtyidx,
     symbols_by_address |-> symbols_by_address,
     branch_addresses |-> branch_addresses,
     reference_addresses |-> reference_addresses,
     post_segment_addresses |-> post_segment_addresses,
     address_ranges |-> address_ranges,
     funcs |-> funcs,
     events |-> events]

\* ------------------------------------------------- loaderlib (the loader)

segments_of(pd) == pd.img.segments
get_segment_address(pd, segment_id) == segments_of(pd)[segment_id + 1].address
get_segment_length(pd, segment_id) == segments_of(pd)[segment_id + 1].length
get_segment_data_length(pd, segment_id) == segments_of(pd)[segment_id + 1].data_length
is_segment_type_bss(pd, segment_id) == segments_of(pd)[segment_id + 1].bss
has_segment_headers(pd) == pd.img.headers

\* archlib System.get_data_instruction_string
get_data_instruction_string(is_bss_segment, with_file_data) ==
    IF with_file_data THEN "DC" ELSE IF is_bss_segment THEN "DS" ELSE "DX"

\* data[data_idx] of the segment's cached data (0 stands in for a byte the
\* file does not hold; segment_data_held tells whether a read gets that far)
data_byte(pd, segment_id, data_idx) ==
    LET a == get_segment_address(pd, segment_id) + data_idx
    IN IF data_idx < get_segment_data_length(pd, segment_id) /\ a \in DOMAIN pd.img.data
       THEN pd.img.data[a] ELSE 0

\* loader_data_types.uint32_value / uint16_value / uint8_value (big endian)
uint8_value(pd, segment_id, data_idx) == data_byte(pd, segment_id, data_idx)
uint16_value(pd, segment_id, data_idx) ==
    data_byte(pd, segment_id, data_idx) * 256 + data_byte(pd, segment_id, data_idx + 1)
uint32_value(pd, segment_id, data_idx) ==
    uint16_value(pd, segment_id, data_idx) * 65536 + uint16_value(pd, segment_id, data_idx + 2)

\* ------------------------------------------- disassemblylib (the decoder)

\* dis_disassemble_one_line_func(data, data_offset_start, pc): the match, or
\* n = 0 for None. A MAF_CODE target is pc-relative: it moves with the pc the
\* caller passes.
disassemble_one_line(pd, segment_id, data_offset_start, pc_arg) ==
    LET a == get_segment_address(pd, segment_id) + data_offset_start
        d == IF a \in DOMAIN pd.img.dec THEN pd.img.dec[a] ELSE NoMatch(0)
    IN [pc |-> pc_arg + 2,
        num_bytes |-> d.n,
        key |-> d.key,
        final |-> d.final,
        targets |-> { << IF HasBit(t[2], MAF_CODE) THEN t[1] + pc_arg - a ELSE t[1], t[2] >>
                       : t \in d.targets }]
disassemble_as_data(pd, segment_id, data_offset_start) ==
    LET a == get_segment_address(pd, segment_id) + data_offset_start
    IN IF a \in DOMAIN pd.img.dec THEN pd.img.dec[a].skip ELSE 0
is_final_instruction(match) == match.final
get_match_addresses(match) == match.targets
\* the items of the match address dictionary in the order a loop visits them
match_address_items(match) ==
    LET addresses == SortedSeq({t[1] : t \in match.targets})
    IN [k \in 1..Len(addresses) |-> CHOOSE t \in match.targets : t[1] = addresses[k]]

\* ------------------------------------------------------------ block flags

get_block_data_type(block) == AndLowMask(block.flags \div Pow(2, DATA_TYPE_BIT0), DATA_TYPE_BITMASK)
\* disassembly_data.set_block_data_type
data_set_block_data_type(block, data_type) ==
    [block EXCEPT !.old_data_type = get_block_data_type(block),
                  !.flags = (block.flags - AndLowMask(block.flags, DATA_TYPE_BITMASK))
                            + AndLowMask(data_type, DATA_TYPE_BITMASK)]

NoReferences == [set |-> FALSE, list |-> <<>>]
NewSegmentBlock ==
    [segment_id |-> None, segment_offset |-> None, address |-> None, length |-> None,
     flags |-> 0, line_data |-> <<>>, line_count |-> 0,
     references |-> NoReferences, old_data_type |-> None]


\* ------------------------------------------------------ block line counts

get_block_header_line_count(pd, block) ==
    IF block.segment_offset = 0 /\ has_segment_headers(pd)
    THEN SEGMENT_HEADER_LINE_COUNT ELSE 0

\* display_configuration: trailing_line_trap and trailing_line_branch are on
get_instruction_line_count(match) ==
    IF match.key = "TRAP" THEN 2
    ELSE IF match.key \in {"Bcc", "DBcc"} THEN 2
    ELSE 1

\* variant whose LONGWORD list has no words
size_types_of_no_words(data_type) ==
    IF data_type = DATA_TYPE_LONGWORD THEN << <<"L", 4>>, <<"B", 1>> >>
    ELSE IF data_type = DATA_TYPE_WORD THEN << <<"W", 2>>, <<"B", 1>> >>
    ELSE << <<"B", 1>> >>

size_types_of(data_type) ==
    IF data_type = DATA_TYPE_LONGWORD THEN << <<"L", 4>>, <<"W", 2>>, <<"B", 1>> >>
    ELSE IF data_type = DATA_TYPE_WORD THEN << <<"W", 2>>, <<"B", 1>> >>
    ELSE << <<"B", 1>> >>

RECURSIVE data_type_sizes_loop(_, _, _, _)
data_type_sizes_loop(block, size_types, k, unconsumed_byte_count) ==
    IF k > Len(size_types) THEN <<>>
    ELSE LET size_char == size_types[k][1]
             num_bytes == size_types[k][2]
             size_count == unconsumed_byte_count \div num_bytes
             size_lines == IF HasBit(block.flags, BLOCK_FLAG_ALLOC) THEN 1 ELSE size_count
         IN IF size_count = 0
            THEN data_type_sizes_loop(block, size_types, k + 1, unconsumed_byte_count)
            ELSE << <<size_char, num_bytes, size_count, size_lines>> >>
                 \o data_type_sizes_loop(block, size_types, k + 1,
                                         unconsumed_byte_count - size_count * num_bytes)

\* the list of (size_char, num_bytes, size_count, size_lines)
get_data_type_sizes(block) ==
    data_type_sizes_loop(block, size_types_of(get_block_data_type(block)), 1, block.length)

\* display_configuration.trailing_line_exit is on
get_block_footer_line_count(pd, block) ==
    IF block.segment_offset + block.length = get_segment_length(pd, block.segment_id)
    THEN IF block.segment_id < Len(segments_of(pd)) - 1 THEN 1 ELSE 0
    ELSE IF get_block_data_type(block) = DATA_TYPE_CODE /\ Len(block.line_data) > 0
         THEN LET last == block.line_data[Len(block.line_data)]
              IN IF last[1] = SLD_INSTRUCTION /\ is_final_instruction(last[2]) THEN 1 ELSE 0
         ELSE 0

RECURSIVE code_line_count(_, _)
code_line_count(line_data, k) ==
    IF k > Len(line_data) THEN 0
    ELSE (IF line_data[k][1] = SLD_INSTRUCTION THEN get_instruction_line_count(line_data[k][2])
          ELSE IF line_data[k][1] \in {SLD_COMMENT_FULL_LINE, SLD_EQU_LOCATION_RELATIVE} THEN 1
          ELSE 0)
         + code_line_count(line_data, k + 1)

RECURSIVE sizes_line_count(_, _)
sizes_line_count(sizes, k) ==
    IF k > Len(sizes) THEN 0 ELSE sizes[k][4] + sizes_line_count(sizes, k + 1)

post_segment_line_count(pd, block) ==
    IF block.segment_offset + block.length = get_segment_length(pd, block.segment_id)
       /\ Has(pd.post_segment_addresses, block.segment_id)
    THEN Len(pd.post_segment_addresses[block.segment_id]) ELSE 0

get_block_line_count(pd, block) ==
    LET data_type == get_block_data_type(block)
        header == get_block_header_line_count(pd, block)
        body == IF data_type = DATA_TYPE_CODE THEN header + code_line_count(block.line_data, 1)
                ELSE IF data_type \in NUMERIC_DATA_TYPES
                     THEN header + sizes_line_count(get_data_type_sizes(block), 1)
                ELSE Len(block.line_data)
    IN IF data_type \notin ({DATA_TYPE_CODE, DATA_TYPE_ASCII} \cup NUMERIC_DATA_TYPES) THEN None
       ELSE body + post_segment_line_count(pd, block) + get_block_footer_line_count(pd, block)

\* ------------------------------------------------------- the two indexes

\* variant that bisects to the left of equal entries
lookup_block_by_address_left(pd, lookup_key) ==
    Bind([lookup_index \in {Cardinality({i \in 1..Len(pd.block_addresses) :
                                            pd.block_addresses[i] < lookup_key})} |->
        [block |-> At(pd.blocks, lookup_index - 1), idx |-> lookup_index - 1]])

lookup_block_by_address(pd, lookup_key) ==
    Bind([lookup_index \in {bisect_right(pd.block_addresses, lookup_key)} |->
        [block |-> At(pd.blocks, lookup_index - 1), idx |-> lookup_index - 1]])

\* get_block_line_count_cached on blocks[block_idx]: fills the cache
get_block_line_count_cached(pd, block_idx) ==
    Bind([block \in {At(pd.blocks, block_idx)} |->
    Bind([value \in {IF block.line_count = 0 THEN get_block_line_count(pd, block) ELSE block.line_count}
         |->
        [pd |-> [pd EXCEPT !.blocks = SetAt(pd.blocks, block_idx,
                                            [block EXCEPT !.line_count = value])],
         value |-> value]])])

RECURSIVE recalculate_loop(_, _, _)
recalculate_loop(pd, i, line_count_start) ==
    IF i >= Len(pd.block_line0s) THEN pd
    ELSE Bind([c \in {get_block_line_count_cached(
                  [pd EXCEPT !.block_line0s = SetAt(pd.block_line0s, i, line_count_start)], i)} |->
             recalculate_loop(c.pd, i + 1, line_count_start + c.value)])

\* _recalculate_line_count_index(program_data), dirtyidx argument None
recalculate_line_count_index(pd) ==
    Bind([dirtyidx \in {pd.block_line0s_dirtyidx} |->
        IF dirtyidx = None THEN pd
        ELSE Bind([c \in {IF dirtyidx > 0 THEN get_block_line_count_cached(pd, dirtyidx - 1)
                  ELSE [pd |-> pd, value |-> 0]} |->
                 [recalculate_loop(c.pd, dirtyidx,
                      IF dirtyidx > 0 THEN At(pd.block_line0s, dirtyidx - 1) + c.value ELSE 0)
                     EXCEPT !.block_line0s_dirtyidx = None]])])

get_block_line_number(pd, block_idx) ==
    Bind([pd1 \in {recalculate_line_count_index(pd)} |->
        [pd |-> pd1, value |-> At(pd1.block_line0s, block_idx)]])

lookup_block_by_line_count(pd, lookup_key) ==
    Bind([pd1 \in {recalculate_line_count_index(pd)} |->
    Bind([lookup_index \in {bisect_right(pd1.block_line0s, lookup_key)} |->
        [pd |-> pd1, block |-> At(pd1.blocks, lookup_index - 1), idx |-> lookup_index - 1]])])

\* variant that moves the dirty cursor and keeps the cached count
clear_block_line_count_cursor_only(pd, block_idx) ==
    [pd EXCEPT !.block_line0s_dirtyidx =
                   IF pd.block_line0s_dirtyidx = None \/ block_idx < pd.block_line0s_dirtyidx
                   THEN block_idx ELSE pd.block_line0s_dirtyidx]

clear_block_line_count(pd, block_idx) ==
    [pd EXCEPT !.block_line0s_dirtyidx =
                   IF pd.block_line0s_dirtyidx = None \/ block_idx < pd.block_line0s_dirtyidx
                   THEN block_idx ELSE pd.block_line0s_dirtyidx,
               !.blocks = SetAt(pd.blocks, block_idx,
                                [At(pd.blocks, block_idx) EXCEPT !.line_count = 0])]

insert_block(pd, insert_idx, block) ==
    [pd EXCEPT !.block_addresses = InsertAt(pd.block_addresses, insert_idx, block.address),
               !.block_line0s = InsertAt(pd.block_line0s, insert_idx, None),
               !.blocks = InsertAt(pd.blocks, insert_idx, block),
               !.block_line0s_dirtyidx =
                   IF pd.block_line0s_dirtyidx = None \/ insert_idx < pd.block_line0s_dirtyidx
                   THEN insert_idx ELSE pd.block_line0s_dirtyidx]

get_file_footer_line_count(pd) ==
    IF get_block_footer_line_count(pd, pd.blocks[Len(pd.blocks)]) > 0 THEN 1 ELSE 2

get_file_line_count(pd) ==
    Bind([last_block_idx \in {Len(pd.blocks) - 1} |->
    Bind([n \in {get_block_line_number(pd, last_block_idx)} |->
    Bind([c \in {get_block_line_count_cached(n.pd, last_block_idx)} |->
        [pd |-> c.pd, value |-> n.value + c.value + get_file_footer_line_count(c.pd)]])])])


\* ------------------------------------------------------- known addresses

\* the for loop of check_known_address over address_ranges[k..]: whether it
\* returned True, the pre_ids it collected and the addressN it leaves bound
RECURSIVE known_address_scan(_, _, _, _)
known_address_scan(ranges, address, k, addressN) ==
    IF k > Len(ranges) THEN [found |-> FALSE, pre_ids |-> {}, addressN |-> addressN]
    ELSE IF address < ranges[k][1] THEN known_address_scan(ranges, address, k + 1, ranges[k][2])
    ELSE IF address > ranges[k][2]
         THEN [found |-> FALSE, pre_ids |-> ranges[k][3], addressN |-> ranges[k][2]]
    ELSE [found |-> TRUE, pre_ids |-> {}, addressN |-> ranges[k][2]]

check_known_address(pd, address) ==
    Bind([r \in {known_address_scan(pd.address_ranges, address, 1, None - 1)} |->
        IF r.found THEN [pd |-> pd, value |-> TRUE]
        ELSE IF address = r.addressN + 1
             THEN IF r.pre_ids # {}
                  THEN Bind([pre_segment_id \in {SetMax(r.pre_ids)} |->
                       Bind([old \in {IF Has(pd.post_segment_addresses, pre_segment_id)
                            THEN pd.post_segment_addresses[pre_segment_id] ELSE <<>>} |->
                           [pd |-> [pd EXCEPT !.post_segment_addresses =
                                       Put(pd.post_segment_addresses, pre_segment_id,
                                           SortedSeq({old[i] : i \in 1..Len(old)} \cup {address}))],
                            value |-> TRUE]])])
                  ELSE [pd |-> pd, value |-> TRUE]
        ELSE [pd |-> pd, value |-> FALSE]])

\* the inner for loop of onload_make_address_ranges: the index of the first
\* range the new segment is joined to and the joined range, or 0
RECURSIVE address_range_join(_, _, _, _, _)
address_range_join(ranges, i, segment_id, new_address0, new_addressN) ==
    IF i > Len(ranges) THEN [i |-> 0, range |-> <<>>]
    ELSE IF ranges[i][2] + 1 = new_address0
         THEN [i |-> i,
               range |-> <<ranges[i][1], new_addressN - 1, ranges[i][3] \cup {segment_id}>>]
    ELSE IF ranges[i][1] = new_addressN + 1
         THEN [i |-> i,
               range |-> <<new_address0, ranges[i][2] - 1, ranges[i][3] \cup {segment_id}>>]
    ELSE address_range_join(ranges, i + 1, segment_id, new_address0, new_addressN)

RECURSIVE make_address_ranges_loop(_, _, _)
make_address_ranges_loop(pd, segment_id, ranges) ==
    IF segment_id >= Len(segments_of(pd)) THEN ranges
    ELSE Bind([new_address0 \in {get_segment_address(pd, segment_id)} |->
         Bind([new_addressN \in {new_address0 + get_segment_length(pd, segment_id)} |->
         Bind([j \in {address_range_join(ranges, 1, segment_id, new_address0, new_addressN)} |->
             make_address_ranges_loop(pd, segment_id + 1,
                 IF j.i # 0 THEN [ranges EXCEPT ![j.i] = j.range]
                 ELSE Append(ranges, <<new_address0, new_addressN - 1, {segment_id}>>))])])])

onload_make_address_ranges(pd) ==
    [pd EXCEPT !.address_ranges = make_address_ranges_loop(pd, 0, <<>>)]

\* ------------------------------------------- symbols and reference registry

\* an observer call: (kind, four numbers, a name)
Event(kind, a, b, c, d, name) == <<kind, a, b, c, d, name>>

\* variant that starts the target's set anew
insert_registry_address_fresh(pd, registry, address, src_abs_idx) ==
    Put(registry, address, {src_abs_idx})

insert_registry_address(pd, registry, address, src_abs_idx) ==
    Put(registry, address,
        (IF Has(registry, address) THEN registry[address] ELSE {}) \cup {src_abs_idx})

\* variant that records the target before it asks whether it is known
insert_branch_address_eager(pd, address, src_abs_idx, pending) ==
    Bind([k \in {check_known_address(pd, address)} |->
        [pd |-> [k.pd EXCEPT !.branch_addresses =
                    insert_registry_address(k.pd, k.pd.branch_addresses, address, src_abs_idx)],
         pending |-> pending \cup {address},
         value |-> k.value]])

insert_branch_address(pd, address, src_abs_idx, pending) ==
    Bind([k \in {check_known_address(pd, address)} |->
        IF ~k.value THEN [pd |-> k.pd, pending |-> pending, value |-> FALSE]
        ELSE [pd |-> [k.pd EXCEPT !.branch_addresses =
                         insert_registry_address(k.pd, k.pd.branch_addresses, address, src_abs_idx)],
              pending |-> pending \cup {address},
              value |-> TRUE]])

insert_reference_address(pd, address, src_abs_idx, pending) ==
    Bind([k \in {check_known_address(pd, address)} |->
        IF ~k.value THEN [pd |-> k.pd, pending |-> pending, value |-> FALSE]
        ELSE [pd |-> [k.pd EXCEPT !.reference_addresses =
                         insert_registry_address(k.pd, k.pd.reference_addresses, address, src_abs_idx)],
              pending |-> pending \cup {address},
              value |-> TRUE]])

get_referring_addresses(pd, address) ==
    (IF Has(pd.branch_addresses, address) THEN pd.branch_addresses[address] ELSE {})
    \cup (IF Has(pd.reference_addresses, address) THEN pd.reference_addresses[address] ELSE {})

\* a call of one of the callbacks, when the application has registered them
notify(pd, event) ==
    IF pd.funcs THEN [pd EXCEPT !.events = Append(pd.events, event)] ELSE pd

\* variant that stores the name whatever check_known_address answers
insert_symbol_unchecked(pd, address, name) ==
    Bind([k \in {check_known_address(pd, address)} |->
        notify([k.pd EXCEPT !.symbols_by_address =
                                Put(k.pd.symbols_by_address, address, name)],
               Event("symbol", address, 0, 0, 0, name))])

insert_symbol(pd, address, name) ==
    Bind([k \in {check_known_address(pd, address)} |->
        IF ~k.value THEN k.pd
        ELSE notify([k.pd EXCEPT !.symbols_by_address =
                                     Put(k.pd.symbols_by_address, address, name)],
                    Event("symbol", address, 0, 0, 0, name))])

\* no symbol: the empty name
NoLabel == ""

\* absolute_info is <<>> for None, else <<referring_instruction_address, num_bytes>>
get_symbol_for_address(pd, address, absolute_info) ==
    LET valid_address ==
            IF absolute_info = <<>> THEN TRUE
            ELSE IF pd.img.binary
                 THEN absolute_info[1] \in get_referring_addresses(pd, address)
            ELSE /\ address \in pd.img.relocated
                 /\ \E search_address \in absolute_info[1]..(absolute_info[1] + absolute_info[2] - 1) :
                        search_address \in pd.img.relocatable
    IN IF valid_address /\ Has(pd.symbols_by_address, address)
       THEN pd.symbols_by_address[address] ELSE NoLabel


\* ------------------------------------------------------------ ascii shaper

get_byte_representation(byte) ==
    IF byte < 16 THEN DecStr(byte) ELSE "$" \o HexMin(byte)

\* last_value of the loop: LastNone for None, LastStr for a character,
\* else the numeric value of the byte
LastNone == -1
LastStr == -2

RECURSIVE ascii_loop(_, _, _, _, _, _, _)
ascii_loop(pd, block, bytes_consumed, bytes_consumed0, block_line_data, line_width, last_value) ==
    IF bytes_consumed >= block.length
    THEN IF bytes_consumed # bytes_consumed0
         THEN Append(block_line_data, <<bytes_consumed0, bytes_consumed - bytes_consumed0>>)
         ELSE block_line_data
    ELSE Bind([step \in {
             Bind([byte \in {data_byte(pd, block.segment_id,
                                       block.segment_offset + bytes_consumed)} |->
             Bind([printable \in {byte >= 32 /\ byte < 127} |->
             Bind([value \in {IF printable THEN LastStr ELSE byte} |->
             Bind([char_line_width \in {
                   (IF printable THEN (IF last_value # LastStr THEN 2 ELSE 0) + 1
                    ELSE Len(get_byte_representation(byte)))
                   + (IF (IF printable THEN last_value # LastStr ELSE last_value # LastNone)
                      THEN 1 ELSE 0)} |->
                 [value |-> value, char_line_width |-> char_line_width,
                  new_line |-> line_width + char_line_width > line_width_max
                               \/ (last_value # 0 /\ value = 0)]])])])])} |->
             ascii_loop(pd, block, bytes_consumed + 1,
                        IF step.new_line THEN bytes_consumed + 1 ELSE bytes_consumed0,
                        IF step.new_line
                        THEN Append(block_line_data,
                                    <<bytes_consumed0, bytes_consumed + 1 - bytes_consumed0>>)
                        ELSE block_line_data,
                        IF step.new_line THEN step.char_line_width
                        ELSE line_width + step.char_line_width,
                        IF step.new_line THEN LastNone ELSE step.value)])

\* variant whose loop stops one byte before the end of the block
process_block_as_ascii_short(pd, block) ==
    [block EXCEPT !.line_data =
        ascii_loop(pd, [block EXCEPT !.length = block.length - 1], 0, 0, <<>>, 0, LastNone)]

\* _process_block_as_ascii: the block with its line_data rebuilt
process_block_as_ascii(pd, block) ==
    [block EXCEPT !.line_data = ascii_loop(pd, block, 0, 0, <<>>, 0, LastNone)]

\* the cached data of a segment is the bytes the file holds: indexing it at
\* a byte of the block past them raises, and so does indexing the missing
\* data of a segment without file bytes
segment_data_held(pd, block) ==
    \A i \in 0..(block.length - 1) :
        block.segment_offset + i < get_segment_data_length(pd, block.segment_id)

\* ---------------------------------------------------------------- split

\* the pre-split validation loop over a code block's line_data, entries
\* i.. (0-based): "break" at i, "mid" (inside the instruction at i), or
\* "end" with i the last index when the loop runs out
RECURSIVE code_split_scan(_, _, _, _)
code_split_scan(line_data, i, offsetN, block_length_reduced) ==
    IF i >= Len(line_data) THEN [kind |-> "end", i |-> Len(line_data) - 1]
    ELSE LET type_id == line_data[i + 1][1]
             entry == line_data[i + 1][2]
         IN IF type_id \in {SLD_INSTRUCTION, SLD_COMMENT_FULL_LINE}
               /\ block_length_reduced = offsetN
            THEN [kind |-> "break", i |-> i]
            ELSE IF type_id = SLD_INSTRUCTION
                 THEN IF block_length_reduced < offsetN + entry.num_bytes
                      THEN [kind |-> "mid", i |-> i]
                      ELSE code_split_scan(line_data, i + 1, offsetN + entry.num_bytes,
                                           block_length_reduced)
                 ELSE code_split_scan(line_data, i + 1, offsetN, block_length_reduced)

\* the index the references loop leaves in i: the first entry at or above
\* address, else the last index
RECURSIVE references_split_index(_, _, _)
references_split_index(references, i, address) ==
    IF i >= Len(references) - 1 THEN Len(references) - 1
    ELSE IF references[i + 1][1] >= address THEN i
    ELSE references_split_index(references, i + 1, address)

\* variant that cuts the preceding block one byte too short
truncate_block_one_short(block, block_length_reduced) ==
    [block EXCEPT !.length = block_length_reduced - 1]
\* split_block: the preceding block is truncated ...
truncate_block(block, block_length_reduced) ==
    [block EXCEPT !.length = block_length_reduced]

\* variant that starts the new block where the preceding one starts
carve_new_block_in_place(block, excess_length) ==
    [NewSegmentBlock EXCEPT
        !.flags = AndLowMask(block.flags, BLOCK_SPLIT_BITMASK),
        !.segment_id = block.segment_id,
        !.address = block.address,
        !.segment_offset = block.segment_offset,
        !.length = excess_length]
\* variant whose new block keeps the data type bits and no flag
carve_new_block_type_only(block, excess_length) ==
    [NewSegmentBlock EXCEPT
        !.flags = AndLowMask(block.flags, DATA_TYPE_BITMASK),
        !.segment_id = block.segment_id,
        !.address = block.address + block.length,
        !.segment_offset = block.segment_offset + block.length,
        !.length = excess_length]
\* ... and a new block is created for the bytes from the split address on
carve_new_block(block, excess_length) ==
    [NewSegmentBlock EXCEPT
        !.flags = AndLowMask(block.flags, BLOCK_SPLIT_BITMASK),
        !.segment_id = block.segment_id,
        !.address = block.address + block.length,
        !.segment_offset = block.segment_offset + block.length,
        !.length = excess_length]

rebase_line_data(line_data, split_offset) ==
    [k \in 1..Len(line_data) |->
        IF line_data[k][1] = SLD_EQU_LOCATION_RELATIVE
        THEN <<line_data[k][1], line_data[k][2] - split_offset>>
        ELSE line_data[k]]

\* split_block: value is the index of the new block or an ERR_SPLIT_ code,
\* idx the index of the block returned with it
split_references(block, address, fallback) ==
    Bind([i \in {IF block.references.list = <<>> THEN fallback
         ELSE references_split_index(block.references.list, 0, address)} |->
        IF block.references.set
        THEN [kept |-> [set |-> TRUE, list |-> SliceTo(block.references.list, i)],
              moved |-> [set |-> TRUE, list |-> SliceFrom(block.references.list, i)]]
        ELSE [kept |-> NoReferences, moved |-> NoReferences]])

split_code_block(block, truncated, new_block0, address, i) ==
    Bind([split_block_line_data \in
             {rebase_line_data(SliceFrom(block.line_data, i), address - block.address)} |->
    Bind([refs \in {split_references(block, address,
                        IF split_block_line_data = <<>> THEN i
                        ELSE Len(split_block_line_data) - 1)} |->
        [block |-> [truncated EXCEPT !.line_data = SliceTo(block.line_data, i),
                                     !.references = refs.kept],
         new_block |-> [new_block0 EXCEPT !.line_data = split_block_line_data,
                                          !.references = refs.moved]]])])

split_block_at(pd, block, block_idx, address, scan) ==
    Bind([block_data_type \in {get_block_data_type(block)} |->
    Bind([truncated \in {truncate_block(block, address - block.address)} |->
    Bind([new_block0 \in {carve_new_block(truncated, block.length - (address - block.address))} |->
    Bind([halves \in {IF block_data_type = DATA_TYPE_CODE
                      THEN split_code_block(block, truncated, new_block0, address, scan.i)
                      ELSE IF block_data_type = DATA_TYPE_ASCII
                           THEN [block |-> process_block_as_ascii(pd, truncated),
                                 new_block |-> process_block_as_ascii(pd, new_block0)]
                      ELSE [block |-> truncated, new_block |-> new_block0]} |->
        clear_block_line_count(
            insert_block([pd EXCEPT !.blocks = SetAt(pd.blocks, block_idx, halves.block)],
                         block_idx + 1, halves.new_block),
            block_idx)])])])])

\* variant whose bounds test lets the address past the segment's end through
split_block_inclusive_end(pd, address, own_midinstruction) ==
    Bind([l \in {lookup_block_by_address(pd, address)} |->
    Bind([segment_address \in {get_segment_address(pd, l.block.segment_id)} |->
    Bind([scan \in {IF get_block_data_type(l.block) = DATA_TYPE_CODE
                     THEN code_split_scan(l.block.line_data, 0, 0, address - l.block.address)
                     ELSE [kind |-> "data", i |-> 0]} |->
        IF l.block.address = address
        THEN [pd |-> pd, value |-> ERR_SPLIT_EXISTING, idx |-> l.idx]
        ELSE IF address < segment_address
                \/ address > segment_address + get_segment_length(pd, l.block.segment_id)
             THEN [pd |-> pd, value |-> ERR_SPLIT_BOUNDS, idx |-> l.idx]
        ELSE IF get_block_data_type(l.block) = DATA_TYPE_CODE /\ scan.kind = "mid"
             THEN IF own_midinstruction
                  THEN [pd |-> clear_block_line_count(
                                   [pd EXCEPT !.blocks = SetAt(pd.blocks, l.idx,
                                       [l.block EXCEPT !.line_data =
                                           InsertAt(l.block.line_data, scan.i + 1,
                                               <<SLD_EQU_LOCATION_RELATIVE,
                                                 address - l.block.address>>)])],
                                   l.idx),
                        value |-> ERR_SPLIT_MIDINSTRUCTION, idx |-> l.idx]
                  ELSE [pd |-> pd, value |-> ERR_SPLIT_MIDINSTRUCTION, idx |-> l.idx]
        ELSE [pd |-> split_block_at(pd, l.block, l.idx, address, scan),
              value |-> l.idx + 1, idx |-> l.idx + 1]])])])

split_block(pd, address, own_midinstruction) ==
    Bind([l \in {lookup_block_by_address(pd, address)} |->
    Bind([segment_address \in {get_segment_address(pd, l.block.segment_id)} |->
    Bind([scan \in {IF get_block_data_type(l.block) = DATA_TYPE_CODE
                     THEN code_split_scan(l.block.line_data, 0, 0, address - l.block.address)
                     ELSE [kind |-> "data", i |-> 0]} |->
        IF l.block.address = address
        THEN [pd |-> pd, value |-> ERR_SPLIT_EXISTING, idx |-> l.idx]
        ELSE IF address < segment_address
                \/ address >= segment_address + get_segment_length(pd, l.block.segment_id)
             THEN [pd |-> pd, value |-> ERR_SPLIT_BOUNDS, idx |-> l.idx]
        ELSE IF get_block_data_type(l.block) = DATA_TYPE_CODE /\ scan.kind = "mid"
             THEN IF own_midinstruction
                  THEN [pd |-> clear_block_line_count(
                                   [pd EXCEPT !.blocks = SetAt(pd.blocks, l.idx,
                                       [l.block EXCEPT !.line_data =
                                           InsertAt(l.block.line_data, scan.i + 1,
                                               <<SLD_EQU_LOCATION_RELATIVE,
                                                 address - l.block.address>>)])],
                                   l.idx),
                        value |-> ERR_SPLIT_MIDINSTRUCTION, idx |-> l.idx]
                  ELSE [pd |-> pd, value |-> ERR_SPLIT_MIDINSTRUCTION, idx |-> l.idx]
        ELSE [pd |-> split_block_at(pd, l.block, l.idx, address, scan),
              value |-> l.idx + 1, idx |-> l.idx + 1]])])])

IS_SPLIT_ERR(value) == value < 0


\* ------------------------------------------------- address <-> line number

\* the loop of get_code_block_info_for_address from entry k on; line is
\* None when the function falls off its end
RECURSIVE code_info_for_address_loop(_, _, _, _, _, _, _)
code_info_for_address_loop(line_data, k, address, base_address, bytes_used, line_number, previous_line) ==
    IF k > Len(line_data)
    THEN IF address < base_address + bytes_used THEN previous_line ELSE None
    ELSE IF line_data[k][1] = SLD_INSTRUCTION
         THEN IF address < base_address + bytes_used THEN previous_line
              ELSE IF address = base_address + bytes_used THEN line_number
              ELSE code_info_for_address_loop(line_data, k + 1, address, base_address,
                       bytes_used + line_data[k][2].num_bytes,
                       line_number + get_instruction_line_count(line_data[k][2]),
                       line_number)
         ELSE IF line_data[k][1] \in {SLD_COMMENT_FULL_LINE, SLD_EQU_LOCATION_RELATIVE}
              THEN code_info_for_address_loop(line_data, k + 1, address, base_address,
                       bytes_used, line_number + 1, previous_line)
         ELSE code_info_for_address_loop(line_data, k + 1, address, base_address,
                       bytes_used, line_number, previous_line)

\* get_code_block_info_for_address: the line number of the result, or None
get_code_block_info_for_address(pd, address) ==
    Bind([l \in {lookup_block_by_address(pd, address)} |->
    Bind([n \in {get_block_line_number(pd, l.idx)} |->
        [pd |-> n.pd,
         value |-> code_info_for_address_loop(l.block.line_data, 1, address,
                       At(pd.block_addresses, l.idx), 0,
                       n.value + get_block_header_line_count(pd, l.block), None)]])])

\* the loops over get_data_type_sizes / ascii ranges of the two translations:
\* spans is the list of (num_bytes, size_count, size_lines)
RECURSIVE line_for_offset_loop(_, _, _, _, _)
line_for_offset_loop(spans, k, address_block_offset, block_offsetN, block_lineN) ==
    IF k > Len(spans) THEN None
    ELSE Bind([offsetN \in {block_offsetN + spans[k][1] * spans[k][2]} |->
            IF address_block_offset >= block_offsetN /\ address_block_offset < offsetN
            THEN block_lineN + ((address_block_offset - block_offsetN) \div spans[k][1])
            ELSE line_for_offset_loop(spans, k + 1, address_block_offset, offsetN,
                                      block_lineN + spans[k][3])])

RECURSIVE offset_for_line_loop(_, _, _, _, _)
offset_for_line_loop(spans, k, line_number, block_offsetN, block_lineN) ==
    IF k > Len(spans) THEN None
    ELSE Bind([lineN \in {block_lineN + spans[k][3]} |->
            IF line_number >= block_lineN /\ line_number < lineN
            THEN block_offsetN + (line_number - block_lineN) * spans[k][1]
            ELSE offset_for_line_loop(spans, k + 1, line_number,
                                      block_offsetN + spans[k][1] * spans[k][2], lineN)])

numeric_spans(block) ==
    Bind([sizes \in {get_data_type_sizes(block)} |->
        [k \in 1..Len(sizes) |-> <<sizes[k][2], sizes[k][3], sizes[k][4]>>]])
\* an ascii range is one line: in get_line_number_for_address the returned
\* line is block_line0, in get_address_for_line_number the offset block_offset0
ascii_spans(block) ==
    [k \in 1..Len(block.line_data) |-> <<block.line_data[k][2], 1, 1>>]

block_spans(block) ==
    IF get_block_data_type(block) = DATA_TYPE_ASCII THEN ascii_spans(block)
    ELSE numeric_spans(block)

get_line_number_for_address(pd, address) ==
    Bind([l \in {lookup_block_by_address(pd, address)} |->
    Bind([data_type \in {get_block_data_type(l.block)} |->
        IF data_type = DATA_TYPE_CODE THEN get_code_block_info_for_address(pd, address)
        ELSE IF data_type \in NUMERIC_DATA_TYPES \/ data_type = DATA_TYPE_ASCII
             THEN Bind([n \in {get_block_line_number(pd, l.idx)} |->
                      [pd |-> n.pd,
                       value |-> line_for_offset_loop(block_spans(l.block), 1,
                                     address - l.block.address, 0,
                                     n.value + get_block_header_line_count(pd, l.block))]])
        ELSE [pd |-> pd, value |-> None]])])

\* the loop of get_code_block_info_for_line_number from entry k on: the
\* address of the result, or None
RECURSIVE code_info_for_line_loop(_, _, _, _, _, _, _)
code_info_for_line_loop(line_data, k, line_number, base_address, bytes_used, line_count, previous_address) ==
    IF k > Len(line_data)
    THEN IF line_number < line_count THEN previous_address ELSE None
    ELSE IF line_data[k][1] = SLD_INSTRUCTION
         THEN IF line_number < line_count THEN previous_address
              ELSE IF line_number = line_count THEN base_address + bytes_used
              ELSE code_info_for_line_loop(line_data, k + 1, line_number, base_address,
                       bytes_used + line_data[k][2].num_bytes,
                       line_count + get_instruction_line_count(line_data[k][2]),
                       base_address + bytes_used)
         ELSE IF line_data[k][1] \in {SLD_COMMENT_FULL_LINE, SLD_EQU_LOCATION_RELATIVE}
              THEN IF line_number = line_count THEN base_address + line_data[k][2]
                   ELSE code_info_for_line_loop(line_data, k + 1, line_number, base_address,
                            bytes_used, line_count + 1, previous_address)
         ELSE code_info_for_line_loop(line_data, k + 1, line_number, base_address,
                       bytes_used, line_count, previous_address)

\* variant that forgets the segment header lines
get_code_block_info_for_line_number_headless(pd, line_number) ==
    Bind([l \in {lookup_block_by_line_count(pd, line_number)} |->
        IF get_block_data_type(l.block) # DATA_TYPE_CODE THEN [pd |-> l.pd, value |-> None]
        ELSE Bind([n \in {get_block_line_number(l.pd, l.idx)} |->
                 [pd |-> n.pd,
                  value |-> code_info_for_line_loop(l.block.line_data, 1, line_number,
                                At(pd.block_addresses, l.idx), 0, n.value, None)]])])

get_code_block_info_for_line_number(pd, line_number) ==
    Bind([l \in {lookup_block_by_line_count(pd, line_number)} |->
        IF get_block_data_type(l.block) # DATA_TYPE_CODE THEN [pd |-> l.pd, value |-> None]
        ELSE Bind([n \in {get_block_line_number(l.pd, l.idx)} |->
                 [pd |-> n.pd,
                  value |-> code_info_for_line_loop(l.block.line_data, 1, line_number,
                                At(pd.block_addresses, l.idx), 0,
                                n.value + get_block_header_line_count(pd, l.block), None)]])])

get_address_for_line_number(pd, line_number) ==
    Bind([l \in {lookup_block_by_line_count(pd, line_number)} |->
    Bind([data_type \in {get_block_data_type(l.block)} |->
        IF data_type = DATA_TYPE_CODE THEN get_code_block_info_for_line_number(pd, line_number)
        ELSE IF data_type \in NUMERIC_DATA_TYPES \/ data_type = DATA_TYPE_ASCII
             THEN Bind([n \in {get_block_line_number(l.pd, l.idx)} |->
                  Bind([offset \in {offset_for_line_loop(block_spans(l.block), 1, line_number, 0,
                           n.value + get_block_header_line_count(pd, l.block))} |->
                      [pd |-> n.pd,
                       value |-> IF offset = None THEN None ELSE l.block.address + offset]])])
        ELSE [pd |-> l.pd, value |-> None]])])


\* ------------------------------------------------------------ line text

\* chr(byte) for the displayable bytes 32..126 (a string cannot hold the
\* grave accent: byte 96 is written as an apostrophe)
PrintableChars ==
    << " ", "!", "\"", "#", "$", "%", "&", "'", "(", ")", "*", "+", ",", "-", ".", "/",
       "0", "1", "2", "3", "4", "5", "6", "7", "8", "9", ":", ";", "<", "=", ">", "?",
       "@", "A", "B", "C", "D", "E", "F", "G", "H", "I", "J", "K", "L", "M", "N", "O",
       "P", "Q", "R", "S", "T", "U", "V", "W", "X", "Y", "Z", "[", "\\", "]", "^", "_",
       "'", "a", "b", "c", "d", "e", "f", "g", "h", "i", "j", "k", "l", "m", "n", "o",
       "p", "q", "r", "s", "t", "u", "v", "w", "x", "y", "z", "{", "|", "}", "~" >>
chr(byte) == PrintableChars[byte - 31]

\* loaderlib.get_segment_header split at its first space: directive, operands
get_segment_header(pd, segment_id) ==
    <<"SECTION", "name" \o HexFixed(get_segment_address(pd, segment_id), 6)>>

\* the operand text of one decoded instruction: each operand that names an
\* address is shown by its label where lookup_symbol finds one
RECURSIVE get_operand_string(_, _, _)
get_operand_string(pd, match, k) ==
    IF k > Len(match_address_items(match)) THEN ""
    ELSE Bind([items \in {match_address_items(match)} |->
         Bind([label \in {get_symbol_for_address(pd, items[k][1],
                  IF HasBit(items[k][2], MAF_ABSOLUTE)
                  THEN <<match.pc - 2, match.num_bytes>> ELSE <<>>)} |->
             (IF label = NoLabel THEN "$" \o HexMin(items[k][1]) ELSE label)
                 \o (IF k < Len(items) THEN ", " ELSE "")
                 \o get_operand_string(pd, match, k + 1)])])

\* the loop over a code block's line_data in get_file_line
RECURSIVE file_line_code_scan(_, _, _, _, _, _)
file_line_code_scan(line_data, k, line_idx, block_offset0, block_offsetN, line_count) ==
    IF k > Len(line_data) THEN [found |-> FALSE]
    ELSE Bind([type_id \in {line_data[k][1]} |->
         Bind([offsetN \in {IF type_id = SLD_INSTRUCTION THEN block_offsetN + line_data[k][2].num_bytes
              ELSE block_offsetN} |->
            IF line_count = line_idx
            THEN [found |-> TRUE, k |-> k, block_offset0 |-> block_offset0,
                  block_offsetN |-> offsetN]
            ELSE IF type_id = SLD_INSTRUCTION
                 THEN file_line_code_scan(line_data, k + 1, line_idx, offsetN, offsetN,
                          line_count + get_instruction_line_count(line_data[k][2]))
                 ELSE file_line_code_scan(line_data, k + 1, line_idx, block_offset0, offsetN,
                          IF type_id \in {SLD_COMMENT_FULL_LINE, SLD_EQU_LOCATION_RELATIVE}
                          THEN line_count + 1 ELSE line_count)])])

\* variant whose EQU operand is the distance from the start of the block
file_line_code_from_start(pd, block, line_idx, column_idx, line_count) ==
    Bind([r \in {file_line_code_scan(block.line_data, 1, line_idx, 0, 0, line_count)} |->
        IF ~r.found THEN ""
        ELSE Bind([line_type_id \in {block.line_data[r.k][1]} |->
             Bind([line_match \in {block.line_data[r.k][2]} |->
                 IF column_idx = LI_INSTRUCTION
                 THEN IF line_type_id = SLD_INSTRUCTION THEN line_match.key
                      ELSE IF line_type_id = SLD_EQU_LOCATION_RELATIVE THEN "EQU" ELSE ""
                 ELSE IF line_type_id = SLD_INSTRUCTION THEN get_operand_string(pd, line_match, 1)
                 ELSE IF line_type_id = SLD_EQU_LOCATION_RELATIVE
                      THEN "*-" \o DecStr((block.address + r.block_offsetN)
                                          - (get_segment_address(pd, block.segment_id)
                                             + block.segment_offset))
                 ELSE ""])])])

file_line_code(pd, block, line_idx, column_idx, line_count) ==
    Bind([r \in {file_line_code_scan(block.line_data, 1, line_idx, 0, 0, line_count)} |->
        IF ~r.found THEN ""
        ELSE Bind([line_type_id \in {block.line_data[r.k][1]} |->
             Bind([line_match \in {block.line_data[r.k][2]} |->
                 IF column_idx = LI_INSTRUCTION
                 THEN IF line_type_id = SLD_INSTRUCTION THEN line_match.key
                      ELSE IF line_type_id = SLD_EQU_LOCATION_RELATIVE THEN "EQU" ELSE ""
                 ELSE IF line_type_id = SLD_INSTRUCTION THEN get_operand_string(pd, line_match, 1)
                 ELSE IF line_type_id = SLD_EQU_LOCATION_RELATIVE
                      THEN "*-" \o DecStr((block.address + r.block_offsetN)
                                          - (get_segment_address(pd, block.segment_id)
                                             + block.segment_offset + line_match))
                 ELSE ""])])])

\* the span of get_data_type_sizes / ascii line_data holding line_idx:
\* its index and data_idx, or index 0
RECURSIVE file_line_span(_, _, _, _, _)
file_line_span(spans, k, line_idx, block_offsetN, block_lineN) ==
    IF k > Len(spans) THEN [k |-> 0, data_idx |-> 0]
    ELSE Bind([lineN \in {block_lineN + spans[k][3]} |->
            IF line_idx >= block_lineN /\ line_idx < lineN
            THEN [k |-> k, data_idx |-> block_offsetN + (line_idx - block_lineN) * spans[k][1]]
            ELSE file_line_span(spans, k + 1, line_idx,
                                block_offsetN + spans[k][1] * spans[k][2], lineN)])

numeric_value(pd, segment_id, data_idx, size_char) ==
    IF size_char = "L" THEN uint32_value(pd, segment_id, data_idx)
    ELSE IF size_char = "W" THEN uint16_value(pd, segment_id, data_idx)
    ELSE uint8_value(pd, segment_id, data_idx)

file_line_numeric(pd, block, line_idx, column_idx, block_lineN) ==
    Bind([sizes \in {get_data_type_sizes(block)} |->
    Bind([r \in {file_line_span([k \in 1..Len(sizes) |-> <<sizes[k][2], sizes[k][3], sizes[k][4]>>],
                        1, line_idx, block.segment_offset, block_lineN)} |->
        IF r.k = 0 THEN ""
        ELSE Bind([size_char \in {sizes[r.k][1]} |->
             Bind([alloc \in {HasBit(block.flags, BLOCK_FLAG_ALLOC)} |->
                 IF column_idx = LI_INSTRUCTION
                 THEN get_data_instruction_string(is_segment_type_bss(pd, block.segment_id),
                                                  ~alloc)
                      \o "." \o size_char
                 ELSE IF alloc THEN DecStr(sizes[r.k][3])
                 ELSE Bind([value \in {numeric_value(pd, block.segment_id, r.data_idx, size_char)}
                           |->
                      Bind([label \in {IF size_char = "L" /\ value \in pd.img.relocatable
                           THEN get_symbol_for_address(pd, value, <<>>) ELSE NoLabel} |->
                          IF label = NoLabel THEN "$" \o HexFixed(value, 2 * sizes[r.k][2])
                          ELSE label])])])])])])

\* the ascii operand text of the bytes data_idx.. (n of them left)
RECURSIVE ascii_operand_string(_, _, _, _, _)
ascii_operand_string(pd, segment_id, data_idx, n, last_value) ==
    IF n = 0 THEN (IF last_value = LastStr THEN "'" ELSE "")
    ELSE Bind([byte \in {data_byte(pd, segment_id, data_idx)} |->
         Bind([printable \in {byte >= 32 /\ byte < 127} |->
            (IF printable
             THEN (IF last_value # LastStr
                   THEN (IF last_value # LastNone THEN "," ELSE "") \o "'" ELSE "")
                  \o chr(byte)
             ELSE (IF last_value # LastNone
                   THEN (IF last_value = LastStr THEN "'" ELSE "") \o "," ELSE "")
                  \o get_byte_representation(byte))
            \o ascii_operand_string(pd, segment_id, data_idx + 1, n - 1,
                                    IF printable THEN LastStr ELSE byte)])])

file_line_ascii(pd, block, line_idx, column_idx, block_lineN) ==
    Bind([r \in {file_line_span(ascii_spans(block), 1, line_idx, block.segment_offset, block_lineN)}
         |->
        IF r.k = 0 THEN ""
        ELSE IF column_idx = LI_INSTRUCTION
             THEN get_data_instruction_string(is_segment_type_bss(pd, block.segment_id), TRUE)
                  \o ".B"
        ELSE ascii_operand_string(pd, block.segment_id, r.data_idx, block.line_data[r.k][2],
                                  LastNone)])


\* get_file_line for the columns LI_INSTRUCTION and LI_OPERANDS
file_line_trailing(pd, block, line_idx, column_idx, block_line_countN) ==
    Bind([addresses \in {IF Has(pd.post_segment_addresses, block.segment_id)
         THEN pd.post_segment_addresses[block.segment_id] ELSE <<>>} |->
    Bind([trailing_line_count \in {(IF block.segment_id < Len(segments_of(pd)) - 1 THEN 1 ELSE 0) + Len(addresses)}
         |->
    Bind([address_idx \in {line_idx - (block_line_countN - trailing_line_count)} |->
    Bind([last_address \in {get_segment_address(pd, block.segment_id) + block.segment_offset + block.length}
         |->
        IF block.segment_offset + block.length # get_segment_length(pd, block.segment_id)
           \/ address_idx <= -1
        THEN [hit |-> FALSE, value |-> ""]
        ELSE IF address_idx < Len(addresses)
             THEN [hit |-> TRUE,
                   value |-> IF column_idx = LI_INSTRUCTION THEN "EQU"
                             ELSE IF addresses[address_idx + 1] - last_address = 0 THEN "*"
                             ELSE "*+$" \o HexMin(addresses[address_idx + 1] - last_address)]
        ELSE IF address_idx = Len(addresses) /\ address_idx + 1 = trailing_line_count
             THEN [hit |-> TRUE, value |-> ""]
        ELSE [hit |-> FALSE, value |-> ""]])])])])

file_line_body(pd, block, line_idx, column_idx, line_count) ==
    Bind([data_type \in {get_block_data_type(block)} |->
        IF data_type = DATA_TYPE_CODE
        THEN file_line_code(pd, block, line_idx, column_idx, line_count)
        ELSE IF data_type \in NUMERIC_DATA_TYPES
             THEN file_line_numeric(pd, block, line_idx, column_idx, line_count)
        ELSE IF data_type = DATA_TYPE_ASCII
             THEN file_line_ascii(pd, block, line_idx, column_idx, line_count)
        ELSE ""])

file_line_footer(pd, block, line_idx, column_idx, line_count) ==
    Bind([final_block_idx \in {Len(pd.blocks) - 1} |->
    Bind([fc \in {get_block_line_count_cached(pd, final_block_idx)} |->
    Bind([file_footer_line_idx \in {At(fc.pd.block_line0s, final_block_idx) + fc.value} |->
    Bind([file_footer_line_count \in {get_file_footer_line_count(fc.pd)} |->
        [pd |-> fc.pd,
         value |-> IF file_footer_line_count = 2 /\ line_idx = file_footer_line_idx THEN ""
                   ELSE IF line_idx = file_footer_line_idx + file_footer_line_count - 1
                        THEN (IF column_idx = LI_INSTRUCTION THEN "END" ELSE "")
                   ELSE file_line_body(fc.pd, block, line_idx, column_idx, line_count)]])])])])

get_file_line(pd, line_idx, column_idx) ==
    IF line_idx = None THEN [pd |-> pd, value |-> "BAD ROW"]
    ELSE
    Bind([l \in {lookup_block_by_line_count(pd, line_idx)} |->
    Bind([c \in {get_block_line_count_cached(l.pd, l.idx)} |->
    Bind([block \in {At(c.pd.blocks, l.idx)} |->
    Bind([block_line_count0 \in {At(l.pd.block_line0s, l.idx)} |->
    Bind([with_header \in {block.segment_offset = 0 /\ has_segment_headers(pd)} |->
        IF with_header /\ line_idx = block_line_count0
        THEN [pd |-> c.pd, value |-> get_segment_header(pd, block.segment_id)[column_idx - 2]]
        ELSE IF with_header /\ line_idx = block_line_count0 + 1
             THEN [pd |-> c.pd, value |-> ""]
        ELSE Bind([t \in {file_line_trailing(pd, block, line_idx, column_idx,
                                     block_line_count0 + c.value)} |->
                 IF t.hit THEN [pd |-> c.pd, value |-> t.value]
                 ELSE file_line_footer(c.pd, block, line_idx, column_idx,
                          block_line_count0
                          + (IF with_header THEN SEGMENT_HEADER_LINE_COUNT ELSE 0))])])])])])])

\* ------------------------------------------------- uncertain references

\* get_file_line for each of the columns in turn
RECURSIVE file_line_columns(_, _, _, _)
file_line_columns(pd, line_idx, columns, k) ==
    IF k > Len(columns) THEN [pd |-> pd, value |-> <<>>]
    ELSE Bind([text \in {get_file_line(pd, line_idx, columns[k])} |->
         Bind([rest \in {file_line_columns(text.pd, line_idx, columns, k + 1)} |->
             [pd |-> rest.pd, value |-> <<text.value>> \o rest.value]])])

\* code_string of one reference: the instruction and operand columns
reference_code_string(pd, address) ==
    Bind([n \in {get_line_number_for_address(pd, address)} |->
    Bind([text \in {file_line_columns(n.pd, n.value, <<LI_INSTRUCTION, LI_OPERANDS>>, 1)} |->
        [pd |-> text.pd,
         value |-> IF Len(text.value[2]) > 0 THEN text.value[1] \o " " \o text.value[2]
                   ELSE text.value[1]]])])

\* the values the while loop of _locate_uncertain_data_references reads:
\* a 32 bit value at every 16 bit aligned offset from address onwards
uncertain_data_reference_candidates(pd, block, address) ==
    Bind([data_idx_start \in {block.segment_offset + (address - block.address)} |->
    Bind([count \in {(block.segment_offset + block.length - data_idx_start) \div 2 - 1} |->
        [k \in 1..(IF count > 0 THEN count ELSE 0) |->
            [address |-> address + 2 * (k - 1),
             value |-> uint32_value(pd, block.segment_id, data_idx_start + 2 * (k - 1)),
             checked |-> TRUE]]])])

\* the body both locating loops share: a data candidate is kept when
\* check_known_address accepts its value, a code candidate always; the
\* code string of a match is built before the next candidate is looked at
RECURSIVE locate_matches(_, _, _, _)
locate_matches(pd, candidates, k, matches) ==
    IF k > Len(candidates) THEN [pd |-> pd, value |-> matches]
    ELSE Bind([known \in {IF candidates[k].checked THEN check_known_address(pd, candidates[k].value)
              ELSE [pd |-> pd, value |-> TRUE]} |->
         Bind([s \in {IF known.value THEN reference_code_string(known.pd, candidates[k].address)
              ELSE [pd |-> known.pd, value |-> ""]} |->
             locate_matches(s.pd, candidates, k + 1,
                 IF known.value
                 THEN Append(matches, <<candidates[k].address, candidates[k].value, s.value>>)
                 ELSE matches)])])

\* the MAF_ABSOLUTE match addresses of one instruction, ascending
RECURSIVE instruction_reference_candidates(_, _, _)
instruction_reference_candidates(entry, k, address0) ==
    IF k > Len(match_address_items(entry)) THEN <<>>
    ELSE (IF HasBit(match_address_items(entry)[k][2], MAF_ABSOLUTE)
          THEN << [address |-> address0, value |-> match_address_items(entry)[k][1],
                   checked |-> FALSE] >>
          ELSE <<>>)
         \o instruction_reference_candidates(entry, k + 1, address0)

\* the instructions _locate_uncertain_code_references looks at
RECURSIVE uncertain_code_reference_candidates(_, _, _, _)
uncertain_code_reference_candidates(block, address, k, addressN) ==
    IF k > Len(block.line_data) THEN <<>>
    ELSE IF block.line_data[k][1] = SLD_INSTRUCTION
         THEN (IF addressN + block.line_data[k][2].num_bytes >= address
               THEN instruction_reference_candidates(block.line_data[k][2], 1, addressN)
               ELSE <<>>)
              \o uncertain_code_reference_candidates(block, address, k + 1,
                     addressN + block.line_data[k][2].num_bytes)
         ELSE uncertain_code_reference_candidates(block, address, k + 1, addressN)

\* _locate_uncertain_code_references(program_data, address, block) for a
\* code block, _locate_uncertain_data_references for any other
locate_uncertain_references(pd, address, block) ==
    Bind([candidates \in
             {IF get_block_data_type(block) = DATA_TYPE_CODE
              THEN uncertain_code_reference_candidates(block, address, 1, block.address)
              ELSE uncertain_data_reference_candidates(pd, block, address)} |->
        locate_matches(pd, candidates, 1, <<>>)])


\* --------------------------------------------------------- retype engine

set_block_flag(pd, block_idx, bit) ==
    [pd EXCEPT !.blocks = SetAt(pd.blocks, block_idx,
        [At(pd.blocks, block_idx) EXCEPT !.flags = OrBit(At(pd.blocks, block_idx).flags, bit)])]
\* variant that clears the bit in every block
clear_block_flag_everywhere(pd, block_idx, bit) ==
    [pd EXCEPT !.blocks = [k \in 1..Len(pd.blocks) |->
        [pd.blocks[k] EXCEPT !.flags = ClearBit(pd.blocks[k].flags, bit)]]]
clear_block_flag(pd, block_idx, bit) ==
    [pd EXCEPT !.blocks = SetAt(pd.blocks, block_idx,
        [At(pd.blocks, block_idx) EXCEPT !.flags = ClearBit(At(pd.blocks, block_idx).flags, bit)])]

\* variant that never moves the cursor
flag_line_recalculation_skipped(dirtyidx, block_idx) == dirtyidx
\* "We changed the line count, we need to flag a block line numbering
\* recalculation": the cursor after the commit of blocks[block_idx]
flag_line_recalculation(dirtyidx, block_idx) ==
    IF dirtyidx = None \/ dirtyidx > block_idx + 1 THEN block_idx + 1 ELSE dirtyidx

\* what a line-change callback finds in blocks[block_idx] when it is called:
\* the block's line count and data type
observed_by_callback(pd, block_idx) ==
    << At(pd.blocks, block_idx).line_count, get_block_data_type(At(pd.blocks, block_idx)) >>

\* variant that calls post_line_change_func before the block is written
make_block_change_late(pd, block_idx, temp_block, line_count_delta) ==
    Bind([posted \in {IF line_count_delta = 0 THEN pd
                      ELSE notify(pd, Event("post", None, line_count_delta,
                                            observed_by_callback(pd, block_idx)[1],
                                            observed_by_callback(pd, block_idx)[2], ""))} |->
        [posted EXCEPT !.blocks = SetAt(posted.blocks, block_idx, temp_block),
                       !.block_line0s_dirtyidx =
                           IF line_count_delta # 0
                           THEN flag_line_recalculation(posted.block_line0s_dirtyidx, block_idx)
                           ELSE posted.block_line0s_dirtyidx]])

\* step 4 of a type change: temp_block is copied into blocks[block_idx], the
\* line numbering is flagged and post_line_change_func is called
make_block_change(pd, block_idx, temp_block, line_count_delta) ==
    Bind([changed \in {[pd EXCEPT !.blocks = SetAt(pd.blocks, block_idx, temp_block),
                     !.block_line0s_dirtyidx =
                         IF line_count_delta # 0
                         THEN flag_line_recalculation(pd.block_line0s_dirtyidx, block_idx)
                         ELSE pd.block_line0s_dirtyidx]} |->
        IF line_count_delta = 0 THEN changed
        ELSE notify(changed, Event("post", None, line_count_delta,
                                   observed_by_callback(changed, block_idx)[1],
                                   observed_by_callback(changed, block_idx)[2], ""))])

\* steps 1-4 of a type change: blocks[block_idx] becomes temp_block, with
\* the line-change callbacks around it
apply_block_change(pd, block_idx, temp_block0) ==
    Bind([n \in {get_block_line_number(pd, block_idx)} |->
    Bind([c \in {get_block_line_count_cached(n.pd, block_idx)} |->
    Bind([temp_block \in {[temp_block0 EXCEPT !.line_count = get_block_line_count(c.pd, temp_block0)]}
         |->
    Bind([line_count_delta \in {temp_block.line_count - c.value} |->
    Bind([seen \in {observed_by_callback(c.pd, block_idx)} |->
    Bind([pre \in {IF line_count_delta = 0 THEN c.pd
         ELSE IF line_count_delta > 0
              THEN notify(c.pd, Event("pre", n.value + c.value, line_count_delta,
                                      seen[1], seen[2], ""))
              ELSE notify(c.pd, Event("pre", n.value + c.value + line_count_delta,
                                      line_count_delta, seen[1], seen[2], ""))} |->
        make_block_change(pre, block_idx, temp_block, line_count_delta)])])])])])])

\* the body of the loop over affected_blocks, for blocks[block_idx]
update_block_references(pd, block_idx) ==
    Bind([affected_block \in {At(pd.blocks, block_idx)} |->
    Bind([r \in {locate_uncertain_references(pd, affected_block.address, affected_block)} |->
    Bind([new_references \in {[set |-> TRUE, list |-> r.value]} |->
        IF affected_block.references = new_references THEN r.pd
        ELSE notify([r.pd EXCEPT !.blocks = SetAt(r.pd.blocks, block_idx,
                         [At(r.pd.blocks, block_idx) EXCEPT !.references = new_references])],
                    Event("references", affected_block.old_data_type,
                          get_block_data_type(affected_block),
                          affected_block.address, affected_block.length, ""))])])])

\* variant that goes on with the change whatever the data holds
set_block_data_type_any_data(pd, data_type, block_idx) ==
    Bind([block \in {At(pd.blocks, block_idx)} |->
    Bind([result \in {split_block(pd, block.address, FALSE)} |->
    Bind([target_idx \in {IF IS_SPLIT_ERR(result.value) THEN block_idx ELSE result.idx} |->
    Bind([retyped \in {data_set_block_data_type(At(result.pd.blocks, target_idx), data_type)} |->
    Bind([shaped \in {IF data_type = DATA_TYPE_ASCII THEN process_block_as_ascii(result.pd, retyped)
         ELSE [retyped EXCEPT !.line_data = <<>>]} |->
        IF data_type = get_block_data_type(block) THEN pd
        ELSE IF IS_SPLIT_ERR(result.value) /\ result.value # ERR_SPLIT_EXISTING THEN pd
        ELSE Bind([changed \in {apply_block_change(result.pd, target_idx,
                     [shaped EXCEPT !.flags = ClearBit(shaped.flags, BLOCK_FLAG_PROCESSED)])} |->
                 update_block_references(changed, target_idx)])])])])])])

\* set_block_data_type(program_data, data_type, block, block_idx) for a data
\* type other than code
set_block_data_type(pd, data_type, block_idx) ==
    Bind([block \in {At(pd.blocks, block_idx)} |->
    Bind([result \in {split_block(pd, block.address, FALSE)} |->
    Bind([target_idx \in {IF IS_SPLIT_ERR(result.value) THEN block_idx ELSE result.idx} |->
    Bind([retyped \in {data_set_block_data_type(At(result.pd.blocks, target_idx), data_type)} |->
    Bind([shaped \in {IF data_type = DATA_TYPE_ASCII THEN process_block_as_ascii(result.pd, retyped)
         ELSE [retyped EXCEPT !.line_data = <<>>]} |->
        IF data_type = get_block_data_type(block) THEN pd
        ELSE IF IS_SPLIT_ERR(result.value) /\ result.value # ERR_SPLIT_EXISTING THEN pd
        \* the read at the first byte the data does not hold raises: the call
        \* ends there, before anything of the change is applied
        ELSE IF data_type = DATA_TYPE_ASCII /\ ~segment_data_held(result.pd, retyped) THEN result.pd
        ELSE Bind([changed \in {apply_block_change(result.pd, target_idx,
                     [shaped EXCEPT !.flags = ClearBit(shaped.flags, BLOCK_FLAG_PROCESSED)])} |->
                 update_block_references(changed, target_idx)])])])])])])


\* ------------------------------------------------------- code discovery

\* the decode loop of _process_address_as_code over one block
RECURSIVE decode_loop(_, _, _, _, _)
decode_loop(pd, block, address, bytes_consumed, line_data) ==
    Bind([match_address \in {address + bytes_consumed} |->
    Bind([data_offset_start \in {block.segment_offset + bytes_consumed} |->
    Bind([match \in {disassemble_one_line(pd, block.segment_id, data_offset_start, match_address)}
         |->
    Bind([label_offsets \in {SortedSeq({o \in 1..(match.num_bytes - 1) :
                        Has(pd.symbols_by_address, match_address + o)})} |->
    Bind([labels \in {[k \in 1..Len(label_offsets) |->
             <<SLD_EQU_LOCATION_RELATIVE, match_address + label_offsets[k] - address>>]} |->
        IF bytes_consumed >= block.length
        THEN [bytes_consumed |-> bytes_consumed, data_bytes_to_skip |-> 0,
              line_data |-> line_data, found_terminating_instruction |-> FALSE,
              match_address |-> None]
        ELSE IF match.num_bytes = 0
             THEN [bytes_consumed |-> bytes_consumed,
                   data_bytes_to_skip |->
                       disassemble_as_data(pd, block.segment_id, data_offset_start),
                   line_data |-> line_data, found_terminating_instruction |-> FALSE,
                   match_address |-> match_address]
        ELSE IF bytes_consumed + match.num_bytes > block.length
             THEN [bytes_consumed |-> bytes_consumed, data_bytes_to_skip |-> 0,
                   line_data |-> line_data, found_terminating_instruction |-> FALSE,
                   match_address |-> match_address]
        ELSE IF is_final_instruction(match)
             THEN [bytes_consumed |-> bytes_consumed + match.num_bytes,
                   data_bytes_to_skip |-> 0,
                   line_data |-> Append(line_data, <<SLD_INSTRUCTION, match>>) \o labels,
                   found_terminating_instruction |-> TRUE,
                   match_address |-> match_address]
        ELSE decode_loop(pd, block, address, bytes_consumed + match.num_bytes,
                         Append(line_data, <<SLD_INSTRUCTION, match>>) \o labels)])])])])])

\* disassembly_offsets.add(match_address) for a MAF_CODE target
worklist_add(offsets, match_address) == offsets \cup {match_address}

\* the addresses one instruction refers to, entered in the registries
RECURSIVE register_match_addresses(_, _, _, _, _)
register_match_addresses(pd, offsets, pending, entry, k) ==
    IF k > Len(match_address_items(entry))
    THEN [pd |-> pd, offsets |-> offsets, pending |-> pending]
    ELSE Bind([match_address \in {match_address_items(entry)[k][1]} |->
         Bind([flags \in {match_address_items(entry)[k][2]} |->
         Bind([relocated \in {/\ match_address \in pd.img.relocated
              /\ \E search_address \in match_address..(match_address + entry.num_bytes - 1) :
                     search_address \in pd.img.relocatable} |->
         Bind([r \in {IF HasBit(flags, MAF_CODE)
              THEN insert_branch_address(pd, match_address, entry.pc - 2, pending)
              ELSE IF (HasBit(flags, MAF_ABSOLUTE) /\ relocated)
                      \/ (~HasBit(flags, MAF_ABSOLUTE) /\ ~HasBit(flags, MAF_UNCERTAIN))
                   THEN insert_reference_address(pd, match_address, entry.pc - 2, pending)
                   ELSE [pd |-> pd, pending |-> pending]} |->
             register_match_addresses(r.pd,
                 IF HasBit(flags, MAF_CODE) THEN worklist_add(offsets, match_address)
                 ELSE offsets,
                 r.pending, entry, k + 1)])])])])

RECURSIVE register_line_data(_, _, _, _, _)
register_line_data(pd, offsets, pending, line_data, k) ==
    IF k > Len(line_data) THEN [pd |-> pd, offsets |-> offsets, pending |-> pending]
    ELSE IF line_data[k][1] = SLD_INSTRUCTION
         THEN Bind([r \in {register_match_addresses(pd, offsets, pending, line_data[k][2], 1)} |->
                  register_line_data(r.pd, r.offsets, r.pending, line_data, k + 1)])
         ELSE register_line_data(pd, offsets, pending, line_data, k + 1)


\* the split at new_code_address, where code may resume behind bytes
\* skipped as data
resume_after_skip(pd1, offsets, block_idx, new_code_address) ==
    Bind([result \in {split_block(pd1, new_code_address, FALSE)} |->
        IF IS_SPLIT_ERR(result.value)
        THEN IF result.value = ERR_SPLIT_EXISTING
             THEN [pd |-> pd1,
                   offsets |->
                       IF ~HasBit(lookup_block_by_address(pd1, new_code_address).block.flags,
                                  BLOCK_FLAG_PROCESSED)
                       THEN offsets \cup {new_code_address} ELSE offsets,
                   skipped |-> FALSE]
             ELSE [pd |-> set_block_flag(pd1, block_idx, BLOCK_FLAG_PROCESSED),
                   offsets |-> offsets, skipped |-> TRUE]
        ELSE Bind([cleared \in {clear_block_flag(result.pd, result.idx,
                                                  BLOCK_FLAG_PROCESSED)} |->
                 [pd |-> set_block_data_type(cleared, DATA_TYPE_LONGWORD, result.idx),
                  offsets |-> offsets \cup {new_code_address}, skipped |-> FALSE]])])

\* the trailing block split off behind the decoded instructions
split_trailing_block(pd, block_idx, d, match_address) ==
    Bind([result \in {split_block(pd, match_address, FALSE)} |->
        IF IS_SPLIT_ERR(result.value)
        THEN [pd |-> set_block_flag(pd, block_idx, BLOCK_FLAG_PROCESSED),
              skipped |-> TRUE, new_code_address |-> None]
        ELSE Bind([retyped \in {set_block_data_type(result.pd, DATA_TYPE_LONGWORD, result.idx)} |->
                 [pd |-> IF ~d.found_terminating_instruction
                         THEN set_block_flag(retyped, result.idx, BLOCK_FLAG_PROCESSED)
                         ELSE clear_block_flag(retyped, result.idx, BLOCK_FLAG_PROCESSED),
                  skipped |-> FALSE,
                  new_code_address |->
                      IF ~d.found_terminating_instruction /\ d.data_bytes_to_skip # 0
                      THEN match_address + d.data_bytes_to_skip ELSE None]])])

\* what follows the decode loop when it stopped short of the block's end:
\* the trailing block is split off and the address code may resume at is
\* queued. skipped is TRUE where the code does `continue`.
process_unconsumed(pd, offsets, block_idx, address, d) ==
    Bind([t \in {IF d.bytes_consumed = 0
         THEN [pd |-> pd, skipped |-> FALSE,
               new_code_address |-> IF d.data_bytes_to_skip # 0
                                    THEN address + d.data_bytes_to_skip ELSE None]
         ELSE split_trailing_block(pd, block_idx, d,
                  IF d.match_address = At(pd.blocks, block_idx).address
                  THEN d.match_address + d.bytes_consumed ELSE d.match_address)} |->
        IF t.skipped \/ t.new_code_address = None
        THEN [pd |-> t.pd, offsets |-> offsets, skipped |-> t.skipped]
        ELSE resume_after_skip(t.pd, offsets, block_idx, t.new_code_address)])

\* the rest of an iteration once the decode loop has ended with d: the
\* unconsumed bytes, the commit of the code block, the referred addresses
commit_decoded(pd1, offsets, pending, address, block_idx, d) ==
    Bind([u \in {IF d.bytes_consumed < At(pd1.blocks, block_idx).length
         THEN process_unconsumed(pd1, offsets, block_idx, address, d)
         ELSE [pd |-> pd1, offsets |-> offsets, skipped |-> FALSE]} |->
    Bind([processed \in {set_block_flag(u.pd, block_idx, BLOCK_FLAG_PROCESSED)} |->
        IF u.skipped
        THEN [pd |-> u.pd, offsets |-> u.offsets, pending |-> pending]
        ELSE IF d.line_data = <<>>
        THEN [pd |-> processed, offsets |-> u.offsets, pending |-> pending]
        ELSE Bind([committed \in {apply_block_change(processed, block_idx,
                     [data_set_block_data_type(At(processed.blocks, block_idx), DATA_TYPE_CODE)
                          EXCEPT !.line_data = d.line_data])} |->
                 register_line_data(committed, u.offsets, pending, d.line_data, 1)])])])

\* a worklist iteration that leaves a CODE block whole when the popped
\* address lies inside it
process_address_code_unsplit(pd, offsets, pending, address) ==
    Bind([l \in {lookup_block_by_address(pd, address)} |->
    Bind([mid_block \in {address - l.block.address > 0
                          /\ get_block_data_type(l.block) # DATA_TYPE_CODE} |->
    Bind([result \in {IF mid_block THEN split_block(pd, address, FALSE)
         ELSE [pd |-> pd, value |-> 0, idx |-> l.idx]} |->
    Bind([block \in {At(result.pd.blocks, result.idx)} |->
        IF mid_block /\ IS_SPLIT_ERR(result.value)
        THEN [pd |-> pd, offsets |-> offsets, pending |-> pending]
        ELSE IF get_block_data_type(l.block) = DATA_TYPE_CODE
                \/ HasBit(block.flags, BLOCK_FLAG_PROCESSED)
        THEN [pd |-> result.pd, offsets |-> offsets, pending |-> pending]
        ELSE Bind([d \in {decode_loop(result.pd, block, address, 0, <<>>)} |->
                 commit_decoded(result.pd, offsets, pending, address, result.idx, d)])])])])])

\* one iteration of the while loop of _process_address_as_code, for the
\* address popped from disassembly_offsets (offsets is what is left of it)
process_address(pd, offsets, pending, address) ==
    Bind([l \in {lookup_block_by_address(pd, address)} |->
    Bind([mid_block \in {address - l.block.address > 0} |->
    Bind([result \in {IF mid_block THEN split_block(pd, address, FALSE)
         ELSE [pd |-> pd, value |-> 0, idx |-> l.idx]} |->
    Bind([block \in {At(result.pd.blocks, result.idx)} |->
        IF mid_block /\ IS_SPLIT_ERR(result.value)
        THEN [pd |-> pd, offsets |-> offsets, pending |-> pending]
        ELSE IF get_block_data_type(l.block) = DATA_TYPE_CODE
                \/ HasBit(block.flags, BLOCK_FLAG_PROCESSED)
        THEN [pd |-> result.pd, offsets |-> offsets, pending |-> pending]
        ELSE Bind([d \in {decode_loop(result.pd, block, address, 0, <<>>)} |->
                 commit_decoded(result.pd, offsets, pending, address, result.idx, d)])])])])])

\* the body of the labelling loop of _process_address_as_code for one
\* pending address
DataTypeLetter(data_type) ==
    IF data_type = DATA_TYPE_CODE THEN "C"
    ELSE IF data_type = DATA_TYPE_ASCII THEN "A"
    ELSE IF data_type = DATA_TYPE_BYTE THEN "B"
    ELSE IF data_type = DATA_TYPE_WORD THEN "W"
    ELSE "L"

label_address(pd, address) ==
    Bind([l \in {lookup_block_by_address(pd, address)} |->
    Bind([split \in {l.block.address # address} |->
    Bind([result \in {IF split THEN split_block(pd, address, TRUE)
         ELSE [pd |-> pd, value |-> 0, idx |-> l.idx]} |->
        IF Has(pd.symbols_by_address, address) THEN pd
        ELSE IF split /\ IS_SPLIT_ERR(result.value)
             THEN IF result.value = ERR_SPLIT_BOUNDS
                  THEN insert_symbol(result.pd, address, "lbZ" \o HexFixed(address, 6))
                  ELSE IF result.value = ERR_SPLIT_MIDINSTRUCTION
                       THEN insert_symbol(result.pd, address, "SYM" \o HexFixed(address, 6))
                  ELSE result.pd
        ELSE insert_symbol(result.pd, address,
                 "lb" \o DataTypeLetter(get_block_data_type(At(result.pd.blocks, result.idx)))
                      \o HexFixed(address, 6))])])])


\* ------------------------------------------------------------ load_file

\* pass 1 of load_file for the segments segment_id..
RECURSIVE load_segment_blocks(_, _)
load_segment_blocks(pd, segment_id) ==
    IF segment_id >= Len(segments_of(pd)) THEN pd
    ELSE LET address == get_segment_address(pd, segment_id)
             data_length == get_segment_data_length(pd, segment_id)
             segment_length == get_segment_length(pd, segment_id)
             flagged == [NewSegmentBlock EXCEPT
                            !.flags = IF is_segment_type_bss(pd, segment_id)
                                      THEN BLOCK_FLAG_ALLOC ELSE 0]
             block == [data_set_block_data_type(flagged, DATA_TYPE_LONGWORD) EXCEPT
                          !.segment_id = segment_id, !.segment_offset = 0,
                          !.address = address, !.length = data_length]
             alloc == [data_set_block_data_type(
                           [NewSegmentBlock EXCEPT !.flags = BLOCK_FLAG_ALLOC],
                           DATA_TYPE_LONGWORD) EXCEPT
                          !.segment_id = segment_id, !.segment_offset = data_length,
                          !.address = address + data_length,
                          !.length = segment_length - data_length]
             pd1 == [pd EXCEPT !.block_addresses = Append(pd.block_addresses, block.address),
                               !.block_line0s = Append(pd.block_line0s, None),
                               !.blocks = Append(pd.blocks, block)]
             pd2 == IF segment_length > data_length
                    THEN [pd1 EXCEPT !.block_addresses = Append(pd1.block_addresses, alloc.address),
                                     !.block_line0s = Append(pd1.block_line0s, None),
                                     !.blocks = Append(pd1.blocks, alloc)]
                    ELSE pd1
         IN load_segment_blocks(pd2, segment_id + 1)

\* pass 2 of load_file: the loader's symbols, in the order of addresses
RECURSIVE load_symbols(_, _, _)
load_symbols(pd, addresses, k) ==
    IF k > Len(addresses) THEN pd
    ELSE load_symbols(insert_symbol(pd, addresses[k], pd.img.symbols[addresses[k]]),
                      addresses, k + 1)

\* the splits for the symbols the loader supplied
RECURSIVE split_existing_symbols(_, _, _)
split_existing_symbols(pd, addresses, k) ==
    IF k > Len(addresses) THEN pd
    ELSE Bind([result \in {split_block(pd, addresses[k], FALSE)} |->
             split_existing_symbols(result.pd, addresses, k + 1)])

RECURSIVE cache_references_loop(_, _)
cache_references_loop(pd, block_idx) ==
    IF block_idx >= Len(pd.blocks) THEN pd
    ELSE Bind([r \in {locate_uncertain_references(pd, At(pd.blocks, block_idx).address,
                                          At(pd.blocks, block_idx))} |->
             cache_references_loop(
                 [r.pd EXCEPT !.blocks = SetAt(r.pd.blocks, block_idx,
                     [At(r.pd.blocks, block_idx) EXCEPT
                         !.references = [set |-> TRUE, list |-> r.value]])],
                 block_idx + 1)])

onload_cache_uncertain_references(pd) ==
    IF pd.img.binary THEN cache_references_loop(pd, 0) ELSE pd

\* load_file up to the call of _process_address_as_code
load_file_start(img) ==
    LET empty == [img |-> img, blocks |-> <<>>, block_addresses |-> <<>>,
                  block_line0s |-> <<>>, block_line0s_dirtyidx |-> 0,
                  symbols_by_address |-> EmptyDict, branch_addresses |-> EmptyDict,
                  reference_addresses |-> EmptyDict, post_segment_addresses |-> EmptyDict,
                  address_ranges |-> <<>>, funcs |-> FALSE, events |-> <<>>]
        pd1 == load_segment_blocks(onload_make_address_ranges(empty), 0)
    IN load_symbols(pd1, SortedSeq(DOMAIN img.symbols), 1)

\* load_file after _process_address_as_code returned
load_file_finish(pd) ==
    Bind([split \in {split_existing_symbols(pd, SortedSeq(DOMAIN pd.img.symbols), 1)} |->
    Bind([cached \in {onload_cache_uncertain_references(split)} |->
        get_file_line_count(cached).pd])])

\* set_block_data_type after _process_address_as_code returned: the loop
\* that collects affected_blocks and the loop over them
RECURSIVE affected_blocks_loop(_, _, _, _)
affected_blocks_loop(pd, block_idx_local, original_block_address, original_block_length) ==
    IF block_idx_local >= Len(pd.blocks) THEN pd
    ELSE IF At(pd.blocks, block_idx_local).address < original_block_address
            \/ At(pd.blocks, block_idx_local).address
                   >= original_block_address + original_block_length
         THEN pd
    ELSE Bind([updated \in {update_block_references(pd, block_idx_local)} |->
             affected_blocks_loop(updated, block_idx_local + 1,
                                  original_block_address, original_block_length)])


\* ------------------------------------------------------- the state machine

\* the addresses of the image's segments
SegmentAddresses(img) ==
    UNION {img.segments[k].address
              ..(img.segments[k].address + img.segments[k].length - 1) :
           k \in 1..Len(img.segments)}

\* the addresses split_block is called with: those of the segments, those
\* before the first segment and between two segments, and the first address
\* past the last segment
SplitAddresses(img) ==
    0..(img.segments[Len(img.segments)].address + img.segments[Len(img.segments)].length)

DataTypes ==
    {DATA_TYPE_CODE, DATA_TYPE_ASCII, DATA_TYPE_BYTE, DATA_TYPE_WORD, DATA_TYPE_LONGWORD}

NoCall ==
    [kind |-> "none", work_state |-> FALSE, cancelled |-> FALSE, repeat |-> FALSE,
     discovery |-> FALSE,
     address |-> None, data_type |-> None, original_block_address |-> None,
     original_block_length |-> None, original_block_idx |-> None,
     \* what get_file_line_count() returned when the call was made
     file_line_count |-> None]

NoSnap == [valid |-> FALSE, state |-> <<>>]

\* what a repeated call is compared on: blocks with their flags, line data
\* and line counts, the symbols and the registries
ProjectState(pd) ==
    << [k \in 1..Len(pd.blocks) |->
           <<pd.blocks[k].address, pd.blocks[k].length, pd.blocks[k].flags,
             pd.blocks[k].line_data, pd.blocks[k].line_count>>],
       pd.symbols_by_address, pd.branch_addresses, pd.reference_addresses >>

Store(pd) ==
    \E p \in {pd} :
        /\ blocks' = p.blocks
        /\ block_addresses' = p.block_addresses
        /\ block_line0s' = p.block_line0s
        /\ block_line0s_dirtyidx' = p.block_line0s_dirtyidx
        /\ symbols_by_address' = p.symbols_by_address
        /\ branch_addresses' = p.branch_addresses
        /\ reference_addresses' = p.reference_addresses
        /\ post_segment_addresses' = p.post_segment_addresses
        /\ address_ranges' = p.address_ranges
        /\ funcs' = p.funcs
        /\ events' = p.events

Init ==
    /\ image \in {Images[i] : i \in 1..Len(Images)}
    /\ blocks = <<>>
    /\ block_addresses = <<>>
    /\ block_line0s = <<>>
    /\ block_line0s_dirtyidx = None
    /\ symbols_by_address = EmptyDict
    /\ branch_addresses = EmptyDict
    /\ reference_addresses = EmptyDict
    /\ post_segment_addresses = EmptyDict
    /\ address_ranges = <<>>
    /\ funcs = FALSE
    /\ events = <<>>
    /\ pc = "new"
    /\ disassembly_offsets = {}
    /\ pending_symbol_addresses = {}
    /\ to_label = {}
    /\ ctx = NoCall
    /\ nops = [retype |-> 0, split |-> 0]
    /\ snap = NoSnap

\* load_file up to the first poll of the discovery pass
LoadFile(work_state) ==
    /\ pc = "new"
    /\ Store(load_file_start(image))
    /\ pc' = "disasm"
    /\ disassembly_offsets' = {image.entry}
    /\ pending_symbol_addresses' = image.relocated \cup {image.entry}
    /\ to_label' = {}
    /\ ctx' = [NoCall EXCEPT !.kind = "load", !.work_state = work_state,
                             !.discovery = TRUE]
    /\ UNCHANGED << image, nops, snap >>

\* one iteration of the worklist loop, for the address pop() hands out
ProcessStep(address) ==
    /\ pc = "disasm"
    /\ address \in disassembly_offsets
    /\ \E r \in {process_address(PD, disassembly_offsets \ {address},
                                 pending_symbol_addresses, address)} :
          /\ Store(r.pd)
          /\ disassembly_offsets' = r.offsets
          /\ pending_symbol_addresses' = r.pending
          /\ to_label' = IF r.offsets = {} THEN r.pending ELSE {}
          /\ pc' = IF r.offsets = {} THEN "label" ELSE "disasm"
    /\ UNCHANGED << image, ctx, nops, snap >>

\* one iteration of the labelling loop
LabelStep(address) ==
    /\ pc = "label"
    /\ address \in to_label
    /\ Store(label_address(PD, address))
    /\ to_label' = to_label \ {address}
    /\ UNCHANGED << image, pc, disassembly_offsets, pending_symbol_addresses, ctx, nops, snap >>


\* the run returned to set_block_data_type: affected_blocks and its loop
finish_retype(pd) ==
    affected_blocks_loop(pd, ctx.original_block_idx, ctx.original_block_address,
                         ctx.original_block_length)

\* the call is over: what a repeat of it will be compared with
Completed(pd, cancelled) ==
    \E p \in {pd} :
        /\ Store(p)
        /\ ctx' = [ctx EXCEPT !.cancelled = cancelled]
        /\ snap' = IF ctx.repeat THEN snap
                   ELSE [valid |-> ~cancelled, state |-> ProjectState(p)]

\* _process_address_as_code returned after its labelling loop
FinishRun ==
    /\ pc = "label"
    /\ to_label = {}
    /\ IF ctx.kind = "load"
       THEN /\ Store([load_file_finish(PD) EXCEPT !.funcs = TRUE])
            /\ ctx' = ctx
            /\ snap' = snap
       ELSE Completed(finish_retype(PD), FALSE)
    /\ pc' = "idle"
    /\ UNCHANGED << image, disassembly_offsets, pending_symbol_addresses, to_label, nops >>

\* work_state.check_exit_update answers true: at the top of a worklist
\* iteration, or at the poll of load_file that follows the discovery pass
Cancel ==
    /\ ctx.work_state
    /\ \/ pc = "disasm"
       \/ pc = "label" /\ to_label = {} /\ ctx.kind = "load"
    /\ IF ctx.kind = "load"
       THEN /\ blocks' = <<>>
            /\ block_addresses' = <<>>
            /\ block_line0s' = <<>>
            /\ block_line0s_dirtyidx' = None
            /\ symbols_by_address' = EmptyDict
            /\ branch_addresses' = EmptyDict
            /\ reference_addresses' = EmptyDict
            /\ post_segment_addresses' = EmptyDict
            /\ address_ranges' = <<>>
            /\ funcs' = FALSE
            /\ events' = <<>>
            /\ pc' = "new"
            /\ pending_symbol_addresses' = {}
            /\ ctx' = NoCall
            /\ snap' = snap
       ELSE /\ Completed(finish_retype(PD), TRUE)
            /\ pc' = "idle"
            /\ UNCHANGED pending_symbol_addresses
    /\ disassembly_offsets' = {}
    /\ to_label' = {}
    /\ UNCHANGED << image, nops >>

\* set_data_type_at_address(address, data_type, work_state): to a data type
\* it runs to its end; to code it runs up to the first poll of the discovery
retype_returns(pd, call) ==
    /\ Store(pd)
    /\ pc' = "idle"
    /\ ctx' = call
    /\ snap' = IF call.repeat THEN snap ELSE [valid |-> TRUE, state |-> ProjectState(pd)]
    /\ UNCHANGED << disassembly_offsets, pending_symbol_addresses, to_label >>

retype(address, data_type, work_state, repeat) ==
    \E pd0 \in {[PD EXCEPT !.events = <<>>]} :
    \E l \in {lookup_block_by_address(pd0, address)} :
    \E call \in {[NoCall EXCEPT !.kind = "retype", !.work_state = work_state,
                                !.repeat = repeat,
                                !.address = address, !.data_type = data_type,
                                !.original_block_address = l.block.address,
                                !.original_block_length = l.block.length,
                                !.original_block_idx = l.idx,
                                !.file_line_count = get_file_line_count(pd0).value]} :
        IF data_type # DATA_TYPE_CODE \/ data_type = get_block_data_type(l.block)
        THEN retype_returns(IF data_type = get_block_data_type(l.block) THEN pd0
                            ELSE set_block_data_type(pd0, data_type, l.idx), call)
        ELSE /\ Store(clear_block_flag(pd0, l.idx, BLOCK_FLAG_PROCESSED))
             /\ pc' = "disasm"
             /\ disassembly_offsets' = {l.block.address}
             /\ pending_symbol_addresses' = {}
             /\ to_label' = {}
             /\ ctx' = [call EXCEPT !.discovery = TRUE]
             /\ snap' = snap

SetDataTypeAtAddress(address, data_type, work_state) ==
    /\ pc = "idle"
    /\ nops.retype < MaxOps
    /\ retype(address, data_type, work_state, FALSE)
    /\ nops' = [nops EXCEPT !.retype = @ + 1]
    /\ UNCHANGED image

\* the same call once more, immediately after the first returned
RepeatSetDataTypeAtAddress ==
    /\ pc = "idle"
    /\ ctx.kind = "retype"
    /\ ~ctx.repeat
    /\ retype(ctx.address, ctx.data_type, FALSE, TRUE)
    /\ UNCHANGED << image, nops >>

\* split_block(address, own_midinstruction) called on its own
SplitBlock(address, own_midinstruction) ==
    /\ pc = "idle"
    /\ nops.split < MaxSplits
    /\ Store(split_block([PD EXCEPT !.events = <<>>], address, own_midinstruction).pd)
    /\ ctx' = [NoCall EXCEPT !.kind = "split", !.address = address]
    /\ snap' = NoSnap
    /\ nops' = [nops EXCEPT !.split = @ + 1]
    /\ UNCHANGED << image, pc, disassembly_offsets, pending_symbol_addresses, to_label >>

\* get_file_line_count(): a query, it brings the line index up to date
GetFileLineCount ==
    /\ pc = "idle"
    /\ block_line0s_dirtyidx # None
    /\ Store(get_file_line_count(PD).pd)
    /\ UNCHANGED << image, pc, disassembly_offsets, pending_symbol_addresses, to_label,
                    ctx, nops, snap >>

Next ==
    \/ \E work_state \in BOOLEAN : LoadFile(work_state)
    \/ \E address \in disassembly_offsets : ProcessStep(address)
    \/ \E address \in to_label : LabelStep(address)
    \/ FinishRun
    \/ Cancel
    \/ \E address \in SegmentAddresses(image), data_type \in DataTypes, work_state \in BOOLEAN :
           SetDataTypeAtAddress(address, data_type, work_state)
    \/ RepeatSetDataTypeAtAddress
    \/ \E address \in SplitAddresses(image), own_midinstruction \in BOOLEAN :
           SplitBlock(address, own_midinstruction)
    \/ GetFileLineCount

Spec == Init /\ [][Next]_vars

\* a call that has started goes on: the worklist loop pops while the set is
\* not empty, the labelling loop visits every pending address, and the
\* function returns
FairSpec ==
    /\ Spec
    /\ WF_vars(\E address \in disassembly_offsets : ProcessStep(address))
    /\ WF_vars(\E address \in to_label : LabelStep(address))
    /\ WF_vars(FinishRun)


\* ------------------------------------------------------------ properties

\* a project exists: load_file has created the blocks
Loaded == pc # "new"
\* no call is running
Quiescent == pc = "idle"

BlockEnd(block) == block.address + block.length
SegmentEnd(segment_id) ==
    image.segments[segment_id + 1].address
    + image.segments[segment_id + 1].length

\* P1 of the specification
PartitionClosed ==
    /\ \A a \in SegmentAddresses(image) :
           Cardinality({k \in 1..Len(blocks) :
                            blocks[k].address <= a /\ a < BlockEnd(blocks[k])}) = 1
    /\ \A k \in 1..Len(blocks) :
           /\ blocks[k].segment_id \in 0..(Len(image.segments) - 1)
           /\ blocks[k].address >= image.segments[blocks[k].segment_id + 1].address
           /\ BlockEnd(blocks[k]) <= SegmentEnd(blocks[k].segment_id)
           /\ \/ k < Len(blocks) /\ BlockEnd(blocks[k]) = blocks[k + 1].address
              \/ BlockEnd(blocks[k]) = SegmentEnd(blocks[k].segment_id)

\* C1: after load and after any sequence of split_block,
\* set_data_type_at_address and discovery steps (every early return
\* included) every address of every segment lies in exactly one block, no
\* block crosses a segment boundary, and every block ends where the next
\* block starts or at its segment's end.
C1_Partition == Loaded => PartitionClosed

\* a retype to code has split blocks off and come to its end
C1_Witness ==
    /\ Quiescent
    /\ ctx.kind = "retype"
    /\ ctx.data_type = DATA_TYPE_CODE
    /\ \E k \in 1..Len(blocks) : blocks[k].address = ctx.original_block_address
                                 /\ blocks[k].length < ctx.original_block_length
    /\ PartitionClosed

\* the bytes of the INSTRUCTION entries of a block's line data
RECURSIVE InstructionBytes(_, _)
InstructionBytes(line_data, k) ==
    IF k > Len(line_data) THEN 0
    ELSE (IF line_data[k][1] = SLD_INSTRUCTION THEN line_data[k][2].num_bytes ELSE 0)
         + InstructionBytes(line_data, k + 1)

\* C2: for every CODE block the num_bytes of its INSTRUCTION entries sum to
\* block.length, also where decoding stopped at a final instruction that is
\* not the block's first while bytes remained.
C2_CodeBytes ==
    \A k \in 1..Len(blocks) :
        get_block_data_type(blocks[k]) = DATA_TYPE_CODE
            => InstructionBytes(blocks[k].line_data, 1) = blocks[k].length

RECURSIVE SumOver(_, _)
SumOver(f, k) == IF k = 0 THEN 0 ELSE f[k] + SumOver(f, k - 1)

FreshLineCounts == [k \in 1..Len(blocks) |-> get_block_line_count(PD, blocks[k])]
CachedLineCounts == [k \in 1..Len(blocks) |-> get_block_line_count_cached(PD, k - 1).value]

\* P2 of the specification, line_count_of being the cached value or the
\* recomputed one
LineCountDerivable ==
    get_file_line_count(PD).value
        = SumOver(CachedLineCounts, Len(blocks)) + get_file_footer_line_count(PD)

LineCountDerivableFresh ==
    get_file_line_count(PD).value
        = SumOver(FreshLineCounts, Len(blocks)) + get_file_footer_line_count(PD)

\* C3: at every quiescent point get_file_line_count() equals the sum of the
\* freshly computed block line counts plus the file footer, and equals the
\* same sum over the cached line counts.
C3_LineCount == Quiescent => LineCountDerivableFresh /\ LineCountDerivable

\* C4: in every reachable state each block's cached line_count is 0 or
\* equal to get_block_line_count(block) of the current state, also after
\* check_known_address has registered a new post-segment address.
C4_CachedLineCount ==
    \A k \in 1..Len(blocks) :
        blocks[k].line_count = 0
        \/ blocks[k].line_count = get_block_line_count(PD, blocks[k])


\* line_count_of(block) of the specification: the cached value, or the
\* recomputed one where the cache is empty
line_count_of(k) == get_block_line_count_cached(PD, k).value

\* the entries of the line index below the cursor are cumulative sums
PrefixUpToDate ==
    \A i \in 0..(Len(blocks) - 1) :
        (block_line0s_dirtyidx = None \/ i < block_line0s_dirtyidx)
            => At(block_line0s, i)
               = SumOver([k \in 1..i |-> line_count_of(k - 1)], i)

CursorMovedDown(new, old) == new # None /\ (old = None \/ new <= old)

\* C5: for every index below the dirty cursor (every index when it is
\* None) block_line0s[i] is the sum of the line counts of blocks 0..i-1;
\* insert_block, clear_block_line_count and the commits only move the
\* cursor to a smaller-or-equal index, and only the recalculation clears it.
C5_DirtyCursor ==
    Loaded =>
        /\ PrefixUpToDate
        /\ \A i \in 0..Len(blocks) :
               CursorMovedDown(insert_block(PD, i, blocks[1]).block_line0s_dirtyidx,
                               block_line0s_dirtyidx)
        /\ \A i \in 0..(Len(blocks) - 1) :
               /\ CursorMovedDown(clear_block_line_count(PD, i).block_line0s_dirtyidx,
                                  block_line0s_dirtyidx)
               /\ CursorMovedDown(flag_line_recalculation(block_line0s_dirtyidx, i),
                                  block_line0s_dirtyidx)
        /\ recalculate_line_count_index(PD).block_line0s_dirtyidx = None

\* a retype has changed a line count in front of other blocks: the cursor
\* stands behind the retyped block, the entries before it are in use
C5_Witness ==
    /\ Quiescent
    /\ ctx.kind = "retype"
    /\ block_line0s_dirtyidx # None
    /\ block_line0s_dirtyidx > 0
    /\ block_line0s_dirtyidx < Len(blocks)
    /\ \E e \in 1..Len(events) : events[e][1] = "post"
    /\ PrefixUpToDate

\* the instruction starts of a code block, as addresses, and the addresses
\* strictly inside an instruction with the start of that instruction
RECURSIVE InstructionStarts(_, _, _)
InstructionStarts(block, k, offset) ==
    IF k > Len(block.line_data) THEN {}
    ELSE IF block.line_data[k][1] = SLD_INSTRUCTION
         THEN {<<block.address + offset, block.line_data[k][2].num_bytes>>}
              \cup InstructionStarts(block, k + 1, offset + block.line_data[k][2].num_bytes)
         ELSE InstructionStarts(block, k + 1, offset)

CodeInstructions ==
    UNION {{i \in InstructionStarts(blocks[k], 1, 0) : i[1] < BlockEnd(blocks[k])} :
           k \in {j \in 1..Len(blocks) : get_block_data_type(blocks[j]) = DATA_TYPE_CODE}}

RoundTrip(a) ==
    LET n == get_line_number_for_address(PD, a)
    IN get_address_for_line_number(n.pd, n.value).value = a

\* C6: for every instruction start a of a CODE block
\* get_address_for_line_number(get_line_number_for_address(a)) = a, and an
\* address strictly inside an instruction has the line number of the
\* instruction's start.
C6_RoundTrip ==
    Quiescent =>
        \A i \in CodeInstructions :
            /\ RoundTrip(i[1])
            /\ \A a \in (i[1] + 1)..(i[1] + i[2] - 1) :
                   a < BlockEnd(lookup_block_by_address(PD, i[1]).block)
                       => get_line_number_for_address(PD, a).value
                          = get_line_number_for_address(PD, i[1]).value

\* a code block behind a segment header, with a two-line instruction in
\* front of another and a label inside an instruction
C6_Witness ==
    /\ Quiescent
    /\ \E i \in CodeInstructions :
           /\ i[2] > 2
           /\ Has(symbols_by_address, i[1] + 2)
           /\ get_line_number_for_address(PD, i[1] + 2).value
              = get_line_number_for_address(PD, i[1]).value
           /\ RoundTrip(i[1])
    /\ \E i \in CodeInstructions :
           /\ get_line_number_for_address(PD, i[1]).value > 3
           /\ RoundTrip(i[1])


\* the block that holds address a, as an index of blocks, or 0
BlockOf(a) ==
    IF \E k \in 1..Len(blocks) : blocks[k].address <= a /\ a < BlockEnd(blocks[k])
    THEN CHOOSE k \in 1..Len(blocks) : blocks[k].address <= a /\ a < BlockEnd(blocks[k])
    ELSE 0

InCodeBlock(a) ==
    BlockOf(a) # 0 /\ get_block_data_type(blocks[BlockOf(a)]) = DATA_TYPE_CODE

\* the MAF_CODE targets of the instructions decoded from address a on, in
\* the code block that holds a
RECURSIVE CodeTargetsFrom(_, _, _, _)
CodeTargetsFrom(block, k, offset, a) ==
    IF k > Len(block.line_data) THEN {}
    ELSE IF block.line_data[k][1] = SLD_INSTRUCTION
         THEN (IF block.address + offset + block.line_data[k][2].num_bytes > a
               THEN {t[1] : t \in {u \in block.line_data[k][2].targets : HasBit(u[2], MAF_CODE)}}
               ELSE {})
              \cup CodeTargetsFrom(block, k + 1, offset + block.line_data[k][2].num_bytes, a)
         ELSE CodeTargetsFrom(block, k + 1, offset, a)

RECURSIVE CodeReachable(_)
CodeReachable(R) ==
    LET next == R \cup UNION {CodeTargetsFrom(blocks[BlockOf(a)], 1, 0, a) :
                                 a \in {b \in R : InCodeBlock(b)}}
    IN IF next = R THEN R ELSE CodeReachable(next)

ReachableFromEntry == CodeReachable({image.entry})

\* load_file has returned the project and nothing was called since
AfterLoad == Quiescent /\ ctx.kind = "load"

\* an instruction decodes at address a
Decodes(a) == a \in DOMAIN image.dec /\ image.dec[a].n > 0

\* C7: after the discovery run from the entry address that finishes
\* without cancellation every address reachable from the entry through
\* MAF_CODE targets of decoded instructions lies in a block of type CODE.
\* Stated for the reachable addresses that lie in a segment and hold an
\* instruction: no run could make code of the others.
C7_CodeClosure ==
    AfterLoad =>
        \A a \in ReachableFromEntry :
            (a \in SegmentAddresses(image) /\ Decodes(a)) => InCodeBlock(a)

RegistryKeys == DOMAIN branch_addresses \cup DOMAIN reference_addresses

\* a discovery run has come to its end without being cancelled
RunFinished == Quiescent /\ ctx.discovery /\ ~ctx.cancelled

\* C8: after a discovery run that finishes without cancellation every key
\* of branch_addresses or reference_addresses has an entry in
\* symbols_by_address or is out of bounds.
C8_LabelUniversality ==
    RunFinished =>
        \A a \in RegistryKeys :
            Has(symbols_by_address, a) \/ a \notin SegmentAddresses(image)

NoEventOfKind(kinds) == \A e \in 1..Len(events) : events[e][1] \notin kinds

\* the repeated call has returned, the first one was not cancelled
Repeated == Quiescent /\ ctx.kind = "retype" /\ ctx.repeat /\ snap.valid

\* C9: set_data_type_at_address(a, T) called a second time immediately
\* after the first leaves blocks, flags, line data, line counts, symbols
\* and registries unchanged and fires no line-change or
\* uncertain-reference event, for every data type T, CODE included.
C9_RetypeIdempotent ==
    Repeated =>
        /\ ProjectState(PD) = snap.state
        /\ NoEventOfKind({"pre", "post", "references"})

\* C10: when check_exit_update answers true at a poll of the worklist loop
\* the engine returns there, and the state it leaves satisfies P1 and P2.
C10_CancellationSafe ==
    (Quiescent /\ ctx.cancelled) => PartitionClosed /\ LineCountDerivable

\* the run was cancelled after an iteration that committed a code block
\* and split the rest off, before the targets it found were labelled
C10_Witness ==
    /\ Quiescent
    /\ ctx.cancelled
    /\ \E k \in 1..Len(blocks) :
           /\ blocks[k].address = ctx.original_block_address
           /\ blocks[k].length < ctx.original_block_length
           /\ get_block_data_type(blocks[k]) = DATA_TYPE_CODE
    /\ \E a \in RegistryKeys : ~Has(symbols_by_address, a)
    /\ PartitionClosed
    /\ LineCountDerivable


\* a discovery call is running: its worklist loop or its labelling loop
InRun == pc \in {"disasm", "label"}

Processed(block) == HasBit(block.flags, BLOCK_FLAG_PROCESSED)

\* every block that carries PROCESSED before a step is still there after
\* it, at the same address, with PROCESSED and with the data type it had:
\* the decoder has not walked it, and the flag is only ever cleared on a
\* block the step itself has split off
ProcessedKept ==
    \A k \in 1..Len(blocks) :
        Processed(blocks[k]) =>
            \E j \in 1..Len(blocks') :
                /\ blocks'[j].address = blocks[k].address
                /\ Processed(blocks'[j])
                /\ get_block_data_type(blocks'[j]) = get_block_data_type(blocks[k])

\* C11: the worklist loop of _process_address_as_code empties and the
\* call returns, whatever the decoder answers (matches, failures, skip
\* counts, final instructions); and within a run no block that is marked
\* PROCESSED is walked by the decoder again: the flag is only cleared on a
\* block that was just split off.
C11_Termination ==
    /\ InRun ~> ~InRun
    /\ [][(pc = "disasm" /\ InRun') => ProcessedKept]_vars

\* a run has returned that skipped bytes as data, left a processed data
\* block behind and cleared the flag on a block it split off
C11_Witness ==
    /\ RunFinished
    /\ \E k \in 1..Len(blocks) :
           Processed(blocks[k]) /\ get_block_data_type(blocks[k]) # DATA_TYPE_CODE
    /\ \E k \in 1..Len(blocks) :
           Processed(blocks[k]) /\ get_block_data_type(blocks[k]) = DATA_TYPE_CODE
    /\ \E k \in 2..Len(blocks) :
           /\ ~Processed(blocks[k])
           /\ get_block_data_type(blocks[k - 1]) = DATA_TYPE_CODE
           /\ blocks[k - 1].segment_id = blocks[k].segment_id


\* C12: every block has length > 0 in every state from load on: the blocks
\* load_file creates, also for a segment whose file-backed length is 0 or
\* equals its total length, and both halves of every split.
C12_BlockLength ==
    Loaded => \A k \in 1..Len(blocks) : blocks[k].length > 0


AsciiRanges(line_data, block_length) ==
    /\ \A i \in 1..Len(line_data) : line_data[i][2] > 0
    /\ Len(line_data) > 0 => line_data[1][1] = 0
    /\ \A i \in 1..(Len(line_data) - 1) :
           line_data[i + 1][1] = line_data[i][1] + line_data[i][2]
    /\ SumOver([i \in 1..Len(line_data) |-> line_data[i][2]], Len(line_data)) = block_length

\* C14: in every reachable state the line_data of every ASCII block is a
\* sequence of (offset, length) ranges with length > 0 that start at offset
\* 0, are contiguous, and whose lengths sum to block.length.
C14_AsciiRanges ==
    \A k \in 1..Len(blocks) :
        get_block_data_type(blocks[k]) = DATA_TYPE_ASCII =>
            AsciiRanges(blocks[k].line_data, blocks[k].length)
\* split_block has just split an ASCII block whose bytes took more than one
\* line: both halves are ASCII blocks
C14_Witness ==
    /\ Quiescent
    /\ ctx.kind = "split"
    /\ \E k \in 1..(Len(blocks) - 1) :
           /\ blocks[k + 1].address = ctx.address
           /\ get_block_data_type(blocks[k]) = DATA_TYPE_ASCII
           /\ get_block_data_type(blocks[k + 1]) = DATA_TYPE_ASCII
           /\ Len(blocks[k].line_data) + Len(blocks[k + 1].line_data) > 2
\* the three arrays have one entry per block and block_addresses holds the
\* blocks' addresses
ArraysParallel ==
    /\ Len(block_addresses) = Len(blocks)
    /\ Len(block_line0s) = Len(blocks)
    /\ \A i \in 1..Len(blocks) : block_addresses[i] = blocks[i].address
AddressesAscending ==
    \A i \in 1..(Len(block_addresses) - 1) : block_addresses[i] < block_addresses[i + 1]

\* C15: in every reachable state blocks, block_addresses and block_line0s
\* have the same length, block_addresses[i] = blocks[i].address for every i,
\* and block_addresses is strictly ascending.
C15_ParallelArrays ==
    ArraysParallel /\ AddressesAscending
\* C16: for every address a inside a segment lookup_block_by_address(a)
\* returns (blocks[i], i), i the right-most index with block_addresses[i] <= a,
\* and that block contains a.
C16_LookupByAddress ==
    Loaded =>
        \A a \in SegmentAddresses(image) :
            \E l \in {lookup_block_by_address(PD, a)} :
                /\ l.idx + 1 \in 1..Len(blocks)
                /\ block_addresses[l.idx + 1] <= a
                /\ \A i \in (l.idx + 2)..Len(blocks) : block_addresses[i] > a
                /\ l.block = blocks[l.idx + 1]
                /\ l.block.address <= a
                /\ a < BlockEnd(l.block)
\* a lookup inside a block that is neither the first nor the last, at an
\* address other than the block's own, and a lookup of an address that two
\* entries of block_addresses hold
C16_Witness ==
    /\ Quiescent
    /\ \E i \in 1..(Len(blocks) - 1) :
           /\ block_addresses[i] = block_addresses[i + 1]
           /\ lookup_block_by_address(PD, block_addresses[i]).idx = i
    /\ \E a \in SegmentAddresses(image) :
           \E l \in {lookup_block_by_address(PD, a)} :
               /\ l.idx > 0
               /\ l.idx + 1 < Len(blocks)
               /\ l.block.address < a
\* a step that is a whole set_data_type_at_address(ctx'.address,
\* ctx'.data_type) call to a data type the block does not have, at an address
\* strictly inside the block
RetypedInsideBlock ==
    /\ pc = "idle"
    /\ pc' = "idle"
    /\ nops'.retype = nops.retype + 1
    /\ ctx'.address > ctx'.original_block_address
    /\ ctx'.data_type # get_block_data_type(At(blocks, ctx'.original_block_idx))

\* C17: set_data_type_at_address(a, new_type) with a strictly inside a block
\* first splits at a: after the call a is a block boundary, the bytes from a
\* on have the new type and the part of the block before a keeps the data
\* type it had.
C17_RetypeFromAddress ==
    [][RetypedInsideBlock =>
          /\ \E k \in 1..Len(blocks') :
                 /\ blocks'[k].address = ctx'.address
                 /\ get_block_data_type(blocks'[k]) = ctx'.data_type
          /\ \E k \in 1..Len(blocks') :
                 /\ blocks'[k].address = ctx'.original_block_address
                 /\ blocks'[k].length > 0
                 /\ get_block_data_type(blocks'[k])
                        = get_block_data_type(At(blocks, ctx'.original_block_idx))]_vars
IsLineEvent(e) == events[e][1] \in {"pre", "post"}
\* the line events e1 < e2 with no other line event between them
NextLineEvent(e1, e2) ==
    /\ e1 < e2
    /\ IsLineEvent(e1)
    /\ IsLineEvent(e2)
    /\ \A e \in (e1 + 1)..(e2 - 1) : ~IsLineEvent(e)

\* C18: within one call every line-count change of a block is published as
\* one pre_line_change_func call followed by one post_line_change_func call
\* with the same delta, the block's new type and line count being written
\* between the two and no other pre call coming in between; no event is
\* published for a delta of 0.
C18_LineChangeEvents ==
    /\ \A e \in 1..Len(events) : IsLineEvent(e) => events[e][3] # 0
    /\ \A e1 \in 1..Len(events) :
           events[e1][1] = "pre" =>
               \E e2 \in 1..Len(events) :
                   /\ NextLineEvent(e1, e2)
                   /\ events[e2][1] = "post"
                   /\ events[e2][3] = events[e1][3]
                   /\ events[e2][4] = events[e1][4] + events[e1][3]
    /\ \A e2 \in 1..Len(events) :
           events[e2][1] = "post" =>
               \E e1 \in 1..Len(events) : NextLineEvent(e1, e2) /\ events[e1][1] = "pre"
\* one call has published two line-count changes, the first of them with a
\* change of the block's data type
C18_Witness ==
    /\ Quiescent
    /\ \E e1, e2, e3, e4 \in 1..Len(events) :
           /\ NextLineEvent(e1, e2)
           /\ NextLineEvent(e2, e3)
           /\ NextLineEvent(e3, e4)
           /\ events[e1][1] = "pre"
           /\ events[e3][1] = "pre"
           /\ events[e1][5] # events[e2][5]
\* a step that is a split_block(ctx'.address) call which has split a block
SplitDone ==
    /\ pc = "idle"
    /\ nops'.split = nops.split + 1
    /\ Len(blocks') = Len(blocks) + 1

\* C19: split_block preserves the line count: after a successful split of a
\* block of any type, with or without ALLOC, the line count of the first
\* half plus the line count of the new block is the line count the block
\* had before the split.
C19_SplitPreservesLineCount ==
    [][SplitDone =>
          \E k \in 1..Len(blocks) :
              /\ blocks'[k + 1].address = ctx'.address
              /\ blocks'[k].address = blocks[k].address
              /\ get_block_line_count(PD', blocks'[k]) + get_block_line_count(PD', blocks'[k + 1])
                     = get_block_line_count(PD, blocks[k])]_vars
BlockStarts == {blocks[k].address : k \in 1..Len(blocks)}
\* split_block(address) answers value and leaves the block store as it is
SplitRefused(address, own_midinstruction, value) ==
    \E r \in {split_block(PD, address, own_midinstruction)} :
        /\ r.value = value
        /\ r.pd.blocks = blocks
        /\ r.pd.block_addresses = block_addresses
        /\ r.pd.block_line0s = block_line0s
        /\ r.pd.block_line0s_dirtyidx = block_line0s_dirtyidx

\* C20: split_block(address) returns ERR_SPLIT_EXISTING when address is a
\* block start and ERR_SPLIT_BOUNDS when address is outside every segment
\* (before the first block, in a gap between segments, past the last
\* segment); in both cases blocks, block_addresses, block_line0s, the dirty
\* cursor and every block's length, line_data and line_count stay as they
\* are.
C20_SplitErrors ==
    Loaded =>
        \A address \in SplitAddresses(image), own_midinstruction \in BOOLEAN :
            /\ address \in BlockStarts
                   => SplitRefused(address, own_midinstruction, ERR_SPLIT_EXISTING)
            /\ address \notin SegmentAddresses(image)
                   => SplitRefused(address, own_midinstruction, ERR_SPLIT_BOUNDS)
\* split_block has been called with an address in the gap between two
\* segments, in a store where an address before the first block and one past
\* the last are refused too
C20_Witness ==
    /\ Quiescent
    /\ ctx.kind = "split"
    /\ ctx.address \notin SegmentAddresses(image)
    /\ \E k \in 1..(Len(image.segments) - 1) :
           /\ SegmentEnd(k - 1) <= ctx.address
           /\ ctx.address < image.segments[k + 1].address
    /\ \E address \in SplitAddresses(image) : address < blocks[1].address
    /\ nops.retype > 0

\* the INSTRUCTION entries of a block's line data: the index of the entry
\* in line_data, the offset of its first byte and its number of bytes
RECURSIVE InstructionEntries(_, _, _)
InstructionEntries(line_data, k, offset) ==
    IF k > Len(line_data) THEN {}
    ELSE IF line_data[k][1] = SLD_INSTRUCTION
         THEN {[i |-> k, offset |-> offset, num_bytes |-> line_data[k][2].num_bytes]}
              \cup InstructionEntries(line_data, k + 1, offset + line_data[k][2].num_bytes)
         ELSE InstructionEntries(line_data, k + 1, offset)

\* split_block(address, own_midinstruction) for an address inside the
\* instruction e of the code block blocks[k]: the error, no block more and
\* no length changed; the block as it was, or with the one entry more right
\* after e and its line count cleared
MidInstructionRefused(k, e, address, own_midinstruction) ==
    \E r \in {split_block(PD, address, own_midinstruction)} :
        /\ r.value = ERR_SPLIT_MIDINSTRUCTION
        /\ Len(r.pd.blocks) = Len(blocks)
        /\ r.pd.block_addresses = block_addresses
        /\ \A j \in 1..Len(blocks) : r.pd.blocks[j].length = blocks[j].length
        /\ \A j \in 1..Len(blocks) : j # k => r.pd.blocks[j] = blocks[j]
        /\ r.pd.blocks[k] =
               IF own_midinstruction
               THEN [blocks[k] EXCEPT
                        !.line_data =
                            SubSeq(blocks[k].line_data, 1, e.i)
                            \o << <<SLD_EQU_LOCATION_RELATIVE, address - blocks[k].address>> >>
                            \o SubSeq(blocks[k].line_data, e.i + 1, Len(blocks[k].line_data)),
                        !.line_count = 0]
               ELSE blocks[k]
        /\ ~own_midinstruction => r.pd.block_line0s_dirtyidx = block_line0s_dirtyidx

\* C21: split_block on a CODE block at an address strictly inside an
\* instruction returns ERR_SPLIT_MIDINSTRUCTION and changes neither the number
\* of blocks nor a block length; without own_midinstruction the block stays
\* as it is, with it exactly one (SLD_EQU_LOCATION_RELATIVE, split_offset)
\* entry is inserted directly after the instruction's entry and the block's
\* line_count is cleared.
C21_SplitMidInstruction ==
    Loaded =>
        \A k \in 1..Len(blocks) :
            get_block_data_type(blocks[k]) = DATA_TYPE_CODE =>
                \A e \in InstructionEntries(blocks[k].line_data, 1, 0) :
                    \A address \in (blocks[k].address + e.offset + 1)
                                    ..(blocks[k].address + e.offset + e.num_bytes - 1) :
                        address < BlockEnd(blocks[k]) =>
                            \A own_midinstruction \in BOOLEAN :
                                MidInstructionRefused(k, e, address, own_midinstruction)
\* split_block(ctx.address, TRUE) has put its entry into a code block whose
\* line count was cached, behind an instruction that is not the block's last
C21_Witness ==
    /\ Quiescent
    /\ ctx.kind = "split"
    /\ \E k \in 1..Len(blocks) :
           /\ get_block_data_type(blocks[k]) = DATA_TYPE_CODE
           /\ blocks[k].line_count = 0
           /\ \E i \in 2..(Len(blocks[k].line_data) - 1) :
                  /\ blocks[k].line_data[i] =
                         <<SLD_EQU_LOCATION_RELATIVE, ctx.address - blocks[k].address>>
                  /\ blocks[k].line_data[i - 1][1] = SLD_INSTRUCTION
                  /\ blocks[k].line_data[i + 1][1] = SLD_INSTRUCTION

\* the data type, the ALLOC flag and the PROCESSED flag of two blocks agree
SameSplitFlags(a, b) ==
    /\ get_block_data_type(a) = get_block_data_type(b)
    /\ HasBit(a.flags, BLOCK_FLAG_ALLOC) = HasBit(b.flags, BLOCK_FLAG_ALLOC)
    /\ HasBit(a.flags, BLOCK_FLAG_PROCESSED) = HasBit(b.flags, BLOCK_FLAG_PROCESSED)

\* C22: after a successful split_block the new block has the data type, the
\* ALLOC flag and the PROCESSED flag of the block it was split from and the
\* first half keeps its flags, so a split alone never makes a PROCESSED block
\* unprocessed.
C22_SplitKeepsFlags ==
    Loaded =>
        \A address \in SplitAddresses(image), own_midinstruction \in BOOLEAN :
            \E r \in {split_block(PD, address, own_midinstruction)} :
                ~IS_SPLIT_ERR(r.value) =>
                    /\ SameSplitFlags(At(r.pd.blocks, r.idx), At(blocks, r.idx - 1))
                    /\ At(r.pd.blocks, r.idx - 1).flags = At(blocks, r.idx - 1).flags
                    /\ \A j \in 0..(Len(r.pd.blocks) - 1) :
                           Processed(At(r.pd.blocks, j))
                               = Processed(At(blocks, IF j < r.idx THEN j ELSE j - 1))
\* split_block(ctx.address) has cut a PROCESSED block in two, and the image
\* has an ALLOC block that a split can cut
C22_Witness ==
    /\ Quiescent
    /\ ctx.kind = "split"
    /\ \E k \in 2..Len(blocks) :
           /\ blocks[k].address = ctx.address
           /\ Processed(blocks[k])
           /\ Processed(blocks[k - 1])
    /\ \E k \in 1..Len(blocks) :
           /\ HasBit(blocks[k].flags, BLOCK_FLAG_ALLOC)
           /\ blocks[k].length > 1

\* the addresses the registry operations are tried with: every address from
\* 0 to two past the end of the last segment
ProbeAddresses(img) ==
    0..(img.segments[Len(img.segments)].address + img.segments[Len(img.segments)].length + 2)

\* the names insert_symbol is tried with
ProbeNames == {"foo", "lbC000002"}

\* C23: insert_symbol(address, name) with an address that is not a known
\* address leaves symbols_by_address unchanged and does not invoke
\* symbol_insert_func; with a known address it stores name under address and
\* invokes the registered callback exactly once with (address, name).
C23_InsertSymbol ==
    address_ranges # <<>> =>
        \A address \in ProbeAddresses(image), name \in ProbeNames :
            \E r \in {insert_symbol(PD, address, name)} :
                IF check_known_address(PD, address).value
                THEN /\ r.symbols_by_address = Put(symbols_by_address, address, name)
                     /\ r.events = IF funcs
                                    THEN Append(events, Event("symbol", address, 0, 0, 0, name))
                                    ELSE events
                ELSE /\ r.symbols_by_address = symbols_by_address
                     /\ r.events = events
\* a run with the callback registered has labelled an address, and the image
\* has addresses that are known and addresses that are not
C23_Witness ==
    /\ funcs
    /\ \E i \in 1..Len(events) :
           /\ events[i][1] = "symbol"
           /\ Has(symbols_by_address, events[i][2])
           /\ symbols_by_address[events[i][2]] = events[i][6]
    /\ \E address \in ProbeAddresses(image) : ~check_known_address(PD, address).value
    /\ \E address \in ProbeAddresses(image) :
           /\ check_known_address(PD, address).value
           /\ ~Has(symbols_by_address, address)

\* the referring addresses the registry operations are tried with
ProbeReferrers == {0, 2}

\* what a registry holds for a target
Referrers(registry, address) == IF Has(registry, address) THEN registry[address] ELSE {}

\* r is the outcome of insert_branch_address (branch) or of
\* insert_reference_address (not branch) for the target address
RegistryInsertOutcome(r, branch, address, src_abs_idx) ==
    IF check_known_address(PD, address).value
    THEN /\ r.value
         /\ r.pending = pending_symbol_addresses \cup {address}
         /\ r.pd.branch_addresses =
                IF branch
                THEN Put(branch_addresses, address,
                         Referrers(branch_addresses, address) \cup {src_abs_idx})
                ELSE branch_addresses
         /\ r.pd.reference_addresses =
                IF branch THEN reference_addresses
                ELSE Put(reference_addresses, address,
                         Referrers(reference_addresses, address) \cup {src_abs_idx})
    ELSE /\ ~r.value
         /\ r.pending = pending_symbol_addresses
         /\ r.pd.branch_addresses = branch_addresses
         /\ r.pd.reference_addresses = reference_addresses
         /\ r.pd.post_segment_addresses = post_segment_addresses

\* C24: insert_branch_address / insert_reference_address with an unknown
\* target return False and leave branch_addresses, reference_addresses,
\* post_segment_addresses and the pending-symbol set unchanged; with a known
\* target they add the referrer to the target's set in the matching registry
\* only, add the target to the pending-symbol set, and return True.
C24_InsertReferrer ==
    address_ranges # <<>> =>
        \A address \in ProbeAddresses(image), src_abs_idx \in ProbeReferrers :
            /\ RegistryInsertOutcome(
                   insert_branch_address(PD, address, src_abs_idx, pending_symbol_addresses),
                   TRUE, address, src_abs_idx)
            /\ RegistryInsertOutcome(
                   insert_reference_address(PD, address, src_abs_idx, pending_symbol_addresses),
                   FALSE, address, src_abs_idx)
\* a run has recorded a branch target with its referrer, pending a label,
\* and a decoded instruction of the image has a target that is not a known
\* address and is in no registry
C24_Witness ==
    /\ InRun
    /\ \E address \in pending_symbol_addresses :
           Referrers(branch_addresses, address) # {}
    /\ \E o \in DOMAIN image.dec : \E t \in image.dec[o].targets :
           /\ ~check_known_address(PD, t[1]).value
           /\ ~Has(branch_addresses, t[1])
           /\ ~Has(reference_addresses, t[1])
           /\ \E k \in 1..Len(blocks) :
                  /\ Processed(blocks[k])
                  /\ blocks[k].address <= o
                  /\ o < BlockEnd(blocks[k])

\* address lies inside a segment of the image
InSegment(img, address) ==
    \E i \in 1..Len(img.segments) :
        /\ img.segments[i].address <= address
        /\ address < img.segments[i].address + img.segments[i].length

\* address lies in one of the ranges
InRanges(ranges, address) ==
    \E i \in 1..Len(ranges) : ranges[i][1] <= address /\ address <= ranges[i][2]

\* no two of the ranges overlap or touch
MaximalRuns(ranges) ==
    \A i, j \in 1..Len(ranges) :
        i # j => (ranges[i][2] + 1 < ranges[j][1] \/ ranges[j][2] + 1 < ranges[i][1])

\* C25: for an image with segments in any layout (contiguous, separated by
\* gaps, ascending or descending), check_known_address(a) returns True for
\* every address a inside a segment, and the address_ranges built by
\* onload_make_address_ranges cover exactly the union of the segment address
\* ranges as maximal contiguous runs.
C25_KnownAddresses ==
    address_ranges # <<>> =>
        /\ \A address \in ProbeAddresses(image) :
               InSegment(image, address) => check_known_address(PD, address).value
        /\ \A address \in ProbeAddresses(image) :
               InSegment(image, address) <=> InRanges(address_ranges, address)
        /\ MaximalRuns(address_ranges)

\* the ids of the segments of the contiguous run that ends right before address
RunSegmentIds(img, address) ==
    {i - 1 : i \in {j \in 1..Len(img.segments) :
                       /\ img.segments[j].address < address
                       /\ \A x \in img.segments[j].address..(address - 1) : InSegment(img, x)}}

\* post_segment_addresses with address registered under segment_id
Registered(registry, segment_id, address) ==
    Put(registry, segment_id,
        SortedSeq({address} \cup (IF Has(registry, segment_id)
                                  THEN {registry[segment_id][i] : i \in 1..Len(registry[segment_id])}
                                  ELSE {})))

\* C26: check_known_address(a) for an address exactly one past the last
\* address of a segment run returns True and registers a once in
\* post_segment_addresses under the highest segment id of that run, the list
\* staying sorted and duplicate-free when a is observed again; for every
\* other address outside all segments it returns False and changes no state.
C26_PostSegmentAddresses ==
    address_ranges # <<>> =>
        \A address \in ProbeAddresses(image) :
            ~InSegment(image, address) =>
                \E r \in {check_known_address(PD, address)} :
                    IF address > 0 /\ InSegment(image, address - 1)
                    THEN /\ r.value
                         /\ r.pd = [PD EXCEPT !.post_segment_addresses =
                                       Registered(post_segment_addresses,
                                                  SetMax(RunSegmentIds(image, address)), address)]
                         /\ check_known_address(r.pd, address) = r
                    ELSE /\ ~r.value
                         /\ r.pd = PD

\* the line number of entry j of the code block blocks[k]
EntryLine(k, j) ==
    get_block_line_number(PD, k - 1).value
    + get_block_header_line_count(PD, blocks[k])
    + code_line_count(SubSeq(blocks[k].line_data, 1, j - 1), 1)

\* the symbols strictly inside a decoded instruction: the block, the
\* instruction's entry and the symbol's address
MidInstructionSymbols ==
    UNION {UNION {{[k |-> k, e |-> e, address |-> a] :
                      a \in {x \in (blocks[k].address + e.offset + 1)
                                     ..(blocks[k].address + e.offset + e.num_bytes - 1) :
                                 x < BlockEnd(blocks[k]) /\ Has(symbols_by_address, x)}} :
                  e \in InstructionEntries(blocks[k].line_data, 1, 0)} :
           k \in {j \in 1..Len(blocks) : get_block_data_type(blocks[j]) = DATA_TYPE_CODE}}

\* entry j of the block is the symbol's EQU entry, behind the instruction
\* and before the next one
EquEntryOf(m, j) ==
    /\ j > m.e.i
    /\ j <= Len(blocks[m.k].line_data)
    /\ blocks[m.k].line_data[j]
           = <<SLD_EQU_LOCATION_RELATIVE, m.address - blocks[m.k].address>>
    /\ \A x \in (m.e.i + 1)..j : blocks[m.k].line_data[x][1] # SLD_INSTRUCTION

\* the line of entry j renders as EQU *-n, n the distance from the symbol
\* to the end of the instruction
RendersEqu(m, j) ==
    /\ get_file_line(PD, EntryLine(m.k, j), LI_INSTRUCTION).value = "EQU"
    /\ get_file_line(PD, EntryLine(m.k, j), LI_OPERANDS).value
           = "*-" \o DecStr(blocks[m.k].address + m.e.offset + m.e.num_bytes - m.address)

\* C27 as stated: when a symbol sits strictly inside a decoded instruction
\* the block holds a LOCATION_RELATIVE_EQU(block_offset) entry after that
\* instruction, its line renders with INSTRUCTION 'EQU' and OPERANDS '*-n',
\* n the distance from the symbol to the end of the instruction, and
\* get_line_number_for_address of the symbol's address is the line number
\* of that EQU line.
C27_EquLineOfSymbol ==
    Quiescent =>
        \A m \in MidInstructionSymbols :
            \E j \in 1..Len(blocks[m.k].line_data) :
                /\ EquEntryOf(m, j)
                /\ RendersEqu(m, j)
                /\ get_line_number_for_address(PD, m.address).value = EntryLine(m.k, j)

\* C27: when a symbol sits strictly inside a decoded instruction the block
\* holds a LOCATION_RELATIVE_EQU(block_offset) entry after that instruction
\* and its line renders with INSTRUCTION 'EQU' and OPERANDS '*-n', n the
\* distance from the symbol to the end of the instruction;
\* get_line_number_for_address of the symbol's address is the line number
\* of the instruction, which is above the EQU line.
C27_MidInstructionSymbol ==
    Quiescent =>
        \A m \in MidInstructionSymbols :
            /\ \E j \in 1..Len(blocks[m.k].line_data) :
                   /\ EquEntryOf(m, j)
                   /\ RendersEqu(m, j)
                   /\ EntryLine(m.k, m.e.i) < EntryLine(m.k, j)
            /\ get_line_number_for_address(PD, m.address).value = EntryLine(m.k, m.e.i)
\* a loaded image has a symbol inside an instruction, with its EQU entry
\* behind the instruction
C27_Witness ==
    /\ Quiescent
    /\ \E m \in MidInstructionSymbols :
           \E j \in 1..Len(blocks[m.k].line_data) :
               /\ EquEntryOf(m, j)
               /\ RendersEqu(m, j)
               /\ m.e.num_bytes - (m.address - blocks[m.k].address - m.e.offset) > 1

\* the header lines of a block: 2 exactly when it starts its segment and
\* the file format has segment headers
HeaderLines(block) == IF block.segment_offset = 0 /\ image.headers THEN 2 ELSE 0

\* the body lines of a block, per data type
BodyLines(block) ==
    IF get_block_data_type(block) = DATA_TYPE_CODE THEN code_line_count(block.line_data, 1)
    ELSE IF get_block_data_type(block) \in NUMERIC_DATA_TYPES
         THEN sizes_line_count(get_data_type_sizes(block), 1)
    ELSE Len(block.line_data)

\* the lines behind the body: the post-segment addresses and the footer
FooterLines(block) ==
    post_segment_line_count(PD, block) + get_block_footer_line_count(PD, block)

\* C28: for a block of every data type (CODE, ASCII, LONGWORD, WORD, BYTE)
\* get_block_line_count is header + body + footer, the header being 2 exactly
\* when segment_offset = 0 and the system has segment headers; an ASCII block
\* at segment_offset 0 counts the 2 header lines in addition to one line per
\* range, as get_file_line renders them.
C28_BlockLineCount ==
    Loaded =>
        \A k \in 1..Len(blocks) :
            get_block_line_count(PD, blocks[k])
                = HeaderLines(blocks[k]) + BodyLines(blocks[k]) + FooterLines(blocks[k])

\* the widths a numeric data type is cut into
WidthsOf(data_type) ==
    IF data_type = DATA_TYPE_LONGWORD THEN {4, 2, 1}
    ELSE IF data_type = DATA_TYPE_WORD THEN {2, 1}
    ELSE {1}

\* the bytes of length that the widths above w leave over
LeftFor(data_type, length, w) ==
    IF w = SetMax(WidthsOf(data_type)) THEN length ELSE length % (2 * w)

\* sizes is the greedy decomposition of the block's length: one entry for
\* every width that fits at least once into what the wider ones leave, in
\* descending order, with its count and its lines
GreedySizes(block, sizes) ==
    /\ \A i \in 1..Len(sizes) :
           /\ sizes[i][2] \in WidthsOf(get_block_data_type(block))
           /\ sizes[i][1] = (IF sizes[i][2] = 4 THEN "L" ELSE IF sizes[i][2] = 2 THEN "W" ELSE "B")
           /\ sizes[i][3] > 0
           /\ sizes[i][3] = LeftFor(get_block_data_type(block), block.length, sizes[i][2])
                                \div sizes[i][2]
           /\ sizes[i][4] = (IF HasBit(block.flags, BLOCK_FLAG_ALLOC) THEN 1 ELSE sizes[i][3])
           /\ i > 1 => sizes[i][2] < sizes[i - 1][2]
    /\ \A w \in WidthsOf(get_block_data_type(block)) :
           LeftFor(get_block_data_type(block), block.length, w) >= w
               => \E i \in 1..Len(sizes) : sizes[i][2] = w
    /\ SumOver([i \in 1..Len(sizes) |-> sizes[i][2] * sizes[i][3]], Len(sizes)) = block.length

\* load_file has built the blocks and the discovery pass has not run yet
FreshlyLoaded ==
    /\ ctx.kind = "load"
    /\ pc = "disasm"
    /\ \A k \in 1..Len(blocks) : ~Processed(blocks[k])

\* blocks[k] is the block load_file makes of the bytes of a segment that the
\* file does not hold, behind the segment's data
AllocTail(k) ==
    /\ HasBit(blocks[k].flags, BLOCK_FLAG_ALLOC)
    /\ blocks[k].segment_offset = image.segments[blocks[k].segment_id + 1].data_length
    /\ blocks[k].segment_offset > 0
    /\ BlockEnd(blocks[k]) = SegmentEnd(blocks[k].segment_id)

\* C29: get_data_type_sizes cuts block.length greedily into widths
\* (LONGWORD: 4,2,1; WORD: 2,1; BYTE: 1) so that the sum of
\* num_bytes*size_count is block.length; a block without ALLOC has
\* size_count lines per width and an ALLOC block one line per used width, so
\* that a freshly loaded ALLOC tail whose length is a multiple of 4 has
\* line_count 1 in an image of one segment.
C29_DataTypeSizes ==
    /\ Loaded =>
           \A k \in 1..Len(blocks) :
               get_block_data_type(blocks[k]) \in NUMERIC_DATA_TYPES
                   => GreedySizes(blocks[k], get_data_type_sizes(blocks[k]))
    /\ (FreshlyLoaded /\ Len(image.segments) = 1) =>
           \A k \in 1..Len(blocks) :
               (AllocTail(k) /\ blocks[k].length % 4 = 0)
                   => /\ get_block_line_count(PD, blocks[k]) = 1
                      /\ get_block_line_count_cached(PD, k - 1).value = 1
\* an image of one segment is freshly loaded with an ALLOC tail of four
\* bytes
C29_Witness ==
    /\ FreshlyLoaded
    /\ Len(image.segments) = 1
    /\ \E k \in 1..Len(blocks) :
           /\ AllocTail(k)
           /\ blocks[k].length = 4
           /\ get_data_type_sizes(blocks[k]) = << <<"L", 4, 1, 1>> >>
\* a LONGWORD block of file data is cut into more than one width
C29_WitnessWidths ==
    /\ Quiescent
    /\ \E k \in 1..Len(blocks) :
           /\ get_block_data_type(blocks[k]) = DATA_TYPE_LONGWORD
           /\ ~HasBit(blocks[k].flags, BLOCK_FLAG_ALLOC)
           /\ Len(get_data_type_sizes(blocks[k])) > 1

\* every target of the registry is in it after the step, with every
\* referrer it had
RegistryGrows(before, after) ==
    \A address \in DOMAIN before :
        /\ Has(after, address)
        /\ before[address] \subseteq after[address]

\* every address that has a symbol has the same symbol after the step
SymbolsKept ==
    \A address \in DOMAIN symbols_by_address :
        /\ Has(symbols_by_address', address)
        /\ symbols_by_address'[address] = symbols_by_address[address]

\* C30: during a discovery run the symbol and reference registries only
\* grow: no key is removed from symbols_by_address, branch_addresses or
\* reference_addresses, no referrer is removed from a target's set, and a
\* default label is never written over an address that already has a symbol.
\* (A cancelled load_file returns no program data at all: the step back to
\* pc = "new" is not a step of the run on its registries.)
C30_RegistriesGrow ==
    [][(InRun /\ pc' # "new")
           => /\ SymbolsKept
              /\ RegistryGrows(branch_addresses, branch_addresses')
              /\ RegistryGrows(reference_addresses, reference_addresses')]_vars
\* the labelling loop of a run has passed a pending address that has a
\* symbol of the loader, and a branch target has more than one referrer
C30_Witness ==
    /\ pc = "label"
    /\ \E address \in pending_symbol_addresses \ to_label :
           /\ Has(image.symbols, address)
           /\ Has(symbols_by_address, address)
           /\ symbols_by_address[address] = image.symbols[address]
    /\ \E address \in DOMAIN branch_addresses :
           Cardinality(branch_addresses[address]) > 1

\* the reference tuples of a block; none when it carries no list
ReferenceList(block) == IF block.references.set THEN block.references.list ELSE <<>>

\* the references of before are divided at address between first and second
ReferencesDivided(before, first, second, address) ==
    /\ ReferenceList(first) \o ReferenceList(second) = ReferenceList(before)
    /\ \A i \in 1..Len(ReferenceList(first)) : ReferenceList(first)[i][1] < address
    /\ \A i \in 1..Len(ReferenceList(second)) : ReferenceList(second)[i][1] >= address

\* C31: after a successful split_block of a block that carries a references
\* list, every reference tuple kept by the first half has an address below
\* the split address and every tuple moved to the new block has one at or
\* above it, and no tuple is lost or duplicated; also when no reference lies
\* at or above the split address and when the list is empty.
C31_SplitReferences ==
    Loaded =>
        \A address \in SplitAddresses(image), own_midinstruction \in BOOLEAN :
            \E r \in {split_block(PD, address, own_midinstruction)} :
                (~IS_SPLIT_ERR(r.value) /\ At(blocks, r.idx - 1).references.set)
                    => ReferencesDivided(At(blocks, r.idx - 1), At(r.pd.blocks, r.idx - 1),
                                         At(r.pd.blocks, r.idx), address)

\* the last INSTRUCTION entry of a block's line data
LastInstruction(line_data) ==
    line_data[SetMax({k \in 1..Len(line_data) : line_data[k][1] = SLD_INSTRUCTION})][2]

\* the step is the worklist iteration that decodes instructions at address:
\* the address is in the worklist and in a block that is neither CODE nor
\* PROCESSED, and block j of the next state is the CODE block made at it
DecodedAt(address, j) ==
    /\ pc = "disasm"
    /\ pc' \in {"disasm", "label"}
    /\ address \in disassembly_offsets
    /\ BlockOf(address) # 0
    /\ get_block_data_type(blocks[BlockOf(address)]) # DATA_TYPE_CODE
    /\ ~Processed(blocks[BlockOf(address)])
    /\ blocks'[j].address = address
    /\ get_block_data_type(blocks'[j]) = DATA_TYPE_CODE
    /\ InstructionBytes(blocks'[j].line_data, 1) > 0

\* the iteration stopped with bytes of the block left behind the decoded
\* instructions
BytesRemain(address, j) ==
    address + InstructionBytes(blocks'[j].line_data, 1) < BlockEnd(blocks[BlockOf(address)])

\* C32: when discovery stops inside a block with bytes remaining, the
\* trailing block it splits off starts at the first byte that the decoded
\* instructions do not cover and has type LONGWORD; it is PROCESSED when
\* decoding stopped on a failure after partial progress and not PROCESSED
\* when it stopped on a final instruction.
C32_TrailingBlock ==
    [][\A address \in disassembly_offsets : \A j \in 1..Len(blocks') :
           (DecodedAt(address, j) /\ BytesRemain(address, j))
               => \E t \in 1..Len(blocks') :
                      /\ blocks'[t].address
                             = address + InstructionBytes(blocks'[j].line_data, 1)
                      /\ get_block_data_type(blocks'[t]) = DATA_TYPE_LONGWORD
                      /\ Processed(blocks'[t])
                             = ~is_final_instruction(LastInstruction(blocks'[j].line_data))]_vars

\* no instruction can be decoded at the start of block k
FailsAtStart(k) ==
    /\ get_block_data_type(blocks[k]) # DATA_TYPE_CODE
    /\ blocks[k].length > 0
    /\ decode_loop(PD, blocks[k], blocks[k].address, 0, <<>>).bytes_consumed = 0

\* the other block addresses, as the rest of the worklist
OtherBlockAddresses(k) ==
    {blocks[i].address : i \in 1..Len(blocks)} \ {blocks[k].address}

\* C33: a local decode failure does not abort the discovery pass: the
\* worklist keeps its remaining addresses, and the block at whose start no
\* byte could be decoded is left a non-code block of type LONGWORD with
\* PROCESSED set, whatever data type it had before.
C33_DecodeFailure ==
    (Loaded /\ Quiescent) =>
        \A k \in 1..Len(blocks) :
            FailsAtStart(k) =>
                \E r \in {process_address(clear_block_flag(PD, k - 1, BLOCK_FLAG_PROCESSED),
                                           OtherBlockAddresses(k), {}, blocks[k].address)} :
                    /\ OtherBlockAddresses(k) \subseteq r.offsets
                    /\ \E j \in 1..Len(r.pd.blocks) :
                           /\ r.pd.blocks[j].address = blocks[k].address
                           /\ get_block_data_type(r.pd.blocks[j]) = DATA_TYPE_LONGWORD
                           /\ Processed(r.pd.blocks[j])

\* what lines 1242-1257 do with one target of a decoded instruction, given
\* the worklist and the two registries after the iteration
TargetHandled(entry, target, flags, offsets, branches, references) ==
    IF HasBit(flags, MAF_CODE)
    THEN /\ target \in offsets
         /\ check_known_address(PD, target).value
                => (entry.pc - 2) \in Referrers(branches, target)
    ELSE IF HasBit(flags, MAF_ABSOLUTE)
    THEN (entry.pc - 2) \in Referrers(references, target)
             => IF image.binary
                THEN check_known_address(PD, target).value
                ELSE \E b \in (entry.pc - 2)..(entry.pc - 2 + entry.num_bytes - 1) :
                         b \in image.relocatable
    ELSE ~HasBit(flags, MAF_UNCERTAIN)
             => (check_known_address(PD, target).value
                    => (entry.pc - 2) \in Referrers(references, target))

\* C34: for each target of a decoded instruction: a MAF_CODE target is
\* pushed on the worklist and recorded in branch_addresses; a MAF_ABSOLUTE
\* target is recorded in reference_addresses only if, for an executable,
\* some byte of the referring instruction is a relocatable address, or, for
\* a bare binary, the target is a known address; a target that is neither
\* CODE nor ABSOLUTE nor UNCERTAIN is recorded in reference_addresses when
\* it is a known address.
C34_MatchAddresses ==
    [][\A address \in disassembly_offsets : \A j \in 1..Len(blocks') :
           DecodedAt(address, j)
               => \A i \in 1..Len(blocks'[j].line_data) :
                      blocks'[j].line_data[i][1] = SLD_INSTRUCTION
                          => \A t \in blocks'[j].line_data[i][2].targets :
                                 TargetHandled(blocks'[j].line_data[i][2], t[1], t[2],
                                               disassembly_offsets', branch_addresses',
                                               reference_addresses')]_vars

\* the MAF_CODE targets of the instructions of the CODE blocks
CodeTargets ==
    UNION {CodeTargetsFrom(blocks[k], 1, 0, blocks[k].address) :
           k \in {j \in 1..Len(blocks) : get_block_data_type(blocks[j]) = DATA_TYPE_CODE}}

\* the address is the start of an instruction of a CODE block
AtInstructionBoundary(address) ==
    /\ InCodeBlock(address)
    /\ \E i \in InstructionStarts(blocks[BlockOf(address)], 1, 0) : i[1] = address

IsInstructionEntry(entry) == entry[1] = SLD_INSTRUCTION

\* first and second are the two halves of the CODE block before, cut at address
SplitAtTarget(before, first, second, address) ==
    /\ first.address = before.address
    /\ first.length = address - before.address
    /\ second.address = address
    /\ second.length = BlockEnd(before) - address
    /\ get_block_data_type(first) = DATA_TYPE_CODE
    /\ get_block_data_type(second) = DATA_TYPE_CODE
    /\ Processed(first)
    /\ Processed(second)
    /\ SelectSeq(first.line_data, IsInstructionEntry)
           \o SelectSeq(second.line_data, IsInstructionEntry)
         = SelectSeq(before.line_data, IsInstructionEntry)

RangeText(block, i) ==
    ascii_operand_string(PD, block.segment_id, block.segment_offset + block.line_data[i][1],
                         block.line_data[i][2], LastNone)

\* C36: each range that _process_block_as_ascii produces renders, with the
\* quotes, commas and decimal or $HH forms that get_file_line writes, to at
\* most 40 characters: the byte whose addition would exceed 40 is placed in
\* the next range.
C36_AsciiLineWidth ==
    \A k \in 1..Len(blocks) :
        get_block_data_type(blocks[k]) = DATA_TYPE_ASCII =>
            \A i \in 1..Len(blocks[k].line_data) :
                Len(RangeText(blocks[k], i)) <= line_width_max

\* the offsets, in the block, of the last bytes of the ranges
RangeEndOffsets(line_data) ==
    {line_data[i][1] + line_data[i][2] - 1 : i \in 1..Len(line_data)}

\* the byte at an offset of a block whose bytes the file holds
BlockByte(block, offset) ==
    data_byte(PD, block.segment_id, block.segment_offset + offset)

\* C37: in the ranges of an ASCII block a NUL byte is the last byte of its
\* range exactly when the byte before it in the block is not NUL: a NUL
\* that directly follows another NUL does not by itself end a range. (The
\* first byte of the block has no byte before it and the last byte always
\* ends a range; the blocks that hold a NUL are too short for the width
\* limit to end one.)
C37_NulEndsRange ==
    \A k \in 1..Len(blocks) :
        (get_block_data_type(blocks[k]) = DATA_TYPE_ASCII /\ segment_data_held(PD, blocks[k])) =>
            \A offset \in 1..(blocks[k].length - 2) :
                BlockByte(blocks[k], offset) = 0 =>
                    ((offset \in RangeEndOffsets(blocks[k].line_data))
                         <=> BlockByte(blocks[k], offset - 1) # 0)

\* the deltas the observer has received through post_line_change_func
PostDeltas == [i \in 1..Len(events) |-> IF events[i][1] = "post" THEN events[i][3] ELSE 0]

\* C38: between the quiescent point at which set_data_type_at_address is
\* called and the one it returns to, the deltas published through
\* post_line_change_func add up to the change of get_file_line_count(),
\* whether the call retyped a block to data or ran discovery, with the
\* splits made inside it and the post-segment addresses it registered.
C38_DeltasAnnounced ==
    (Quiescent /\ ctx.kind = "retype") =>
        SumOver(PostDeltas, Len(events))
            = get_file_line_count(PD).value - ctx.file_line_count

\* line number n belongs to block k: it is one of the lines the index gives
\* the block, and lookup_block_by_line_count(n) returns the block
LineOfBlock(n, k) ==
    /\ n # None
    /\ get_block_line_number(PD, k - 1).value <= n
    /\ n < get_block_line_number(PD, k - 1).value
               + get_block_line_count_cached(PD, k - 1).value
    /\ lookup_block_by_line_count(PD, n).idx = k - 1

\* C39: for every address inside a block of any type (CODE, ASCII, numeric
\* with or without ALLOC), get_line_number_for_address returns a line
\* number of the block that contains the address: block_line0 <= n <
\* block_line0 + line_count(block), and lookup_block_by_line_count(n)
\* returns that block.
C39_LineOfAddress ==
    (Loaded /\ Quiescent) =>
        \A a \in SegmentAddresses(image) :
            BlockOf(a) # 0 =>
                LineOfBlock(get_line_number_for_address(PD, a).value, BlockOf(a))

\* the addresses of the bytes of the CODE blocks of a block list
CodeBytes(block_list) ==
    UNION {block_list[k].address..(BlockEnd(block_list[k]) - 1) :
           k \in {j \in 1..Len(block_list) :
                      get_block_data_type(block_list[j]) = DATA_TYPE_CODE}}

\* C40: during a discovery run a byte that has been committed to a CODE
\* block never reverts to a non-CODE block; in particular a skip-as-data
\* jump that lands on an instruction boundary inside a CODE block does not
\* split the block and retype its tail to LONGWORD. (A cancelled load_file
\* discards the whole block store and is left out.)
C40_CodeStaysCode ==
    [][(InRun /\ pc' # "new") => CodeBytes(blocks) \subseteq CodeBytes(blocks')]_vars
====
